---- MODULE Spec2Model ----
(***************************************************************************)
(* Model of the audio engine of bus64/audioui: the client facade           *)
(* (AudioEngineClient), the engine run loop, reaper and block scheduler    *)
(* (AudioEngine), the zone loops of Maestro, and the asyncio event loop    *)
(* they all run on.                                                         *)
(*                                                                          *)
(* The event loop is one thread.  `ready` is its FIFO of callbacks         *)
(* (loop._ready); `batch` is how many of them the current _run_once         *)
(* iteration still has to run; `cur` names the coroutine that holds the    *)
(* loop thread in the middle of a callback.  Caller threads (the GUI) act  *)
(* at any moment and reach the loop only through call_soon_threadsafe.     *)
(* Time is abstract: a sleeping task's timer may fire at any iteration     *)
(* boundary of the loop.                                                    *)
(***************************************************************************)
EXTENDS Naturals, Sequences, FiniteSets

\* ---------------------------------------------------------------- bounds
MaxCalls == 2        \* calls made by caller threads
MaxZoneIters == 2    \* iterations granted to the zone loops
MaxWarnings == 1     \* "Error in zone" warnings counted (the count saturates)
MaxMuteFlips == 1    \* changes of maestro.mute
MaxReloads == 2      \* calls of PresetRegistry.reload()
MaxBlockLen == 3     \* events of one play_block
MaxOffset == 2       \* largest time_offset of an event
MaxHands == 2        \* hands of a melody
MaxHandLen == 3      \* events of a hand
MaxEvents == 9       \* next_event() calls after a start()
MaxMidi == 127       \* largest MIDI number of a chord note
MaxChordNotes == 2   \* notes of a chord
MaxChords == 1       \* chords of the list given to voice()
MaxBeats == 4        \* beats asked of ProgressionSynth.next
MaxMarkovBars == 1   \* bars asked of a synth without genre
MaxCached == 1       \* entries _next_cached keeps (maxsize, 128 in the program)
MaxNextCalls == 3    \* next() calls on one synth
MaxLeaves == 3
MaxPrepares == 2     \* calls of ArrangementEngine.prepare_block
MaxReapVoices == 3   \* voices played in the reaper-pass model
MaxPasses == 2       \* passes of _cleanup_stopped_presets
MaxTime == 3         \* loop.time() runs from 0 to MaxTime
MaxTimedBlocks == 2  \* block tasks alive in the timing model
MaxTimedLen == 2     \* events of one block in the timing model
MaxPulls == 2        \* next_event calls made by one next_block_events
MaxDur == 2          \* largest duration of a note, in beats
MaxTicks == 4        \* ticks counted in one next_block_events (the count saturates)
MaxLoopIters == 3    \* iterations of _zone_block_loop, all zones together

\* ------------------------------------------------------- program constants
Zones == {"Z"}
KnownPresets == {"piano", "snare", "chorus"}
PresetNames == KnownPresets \cup {"lead"}
ParamChoices == {{}, {"notes", "durations"}}
StopParams == {"intensity", "fade"}

VARIABLES
    ready, batch, cur, stopping, loopAlive,      \* the asyncio loop
    cmd_queue, ack_queue, ackGetters,            \* the two asyncio.Queues
    dequeued,                                    \* commands taken from cmd_queue
    dropped,                                     \* last "unknown preset" warning
    enginePc, shutdown_event, serverStopped,     \* AudioEngine.run
    reaper,                                      \* _periodic_cleanup_task
    active_presets, voices, finished, current_melody,
    blocks,                                      \* _process_block_events tasks
    mute, sched, gets, shutPc,                   \* AudioEngineClient
    zones, tasks, ztask, warnings,               \* Maestro
    sfx_events, sfxLog,                          \* Maestro.sfx_events, its history
    preset_map, presets_sig, presets_meta,       \* PresetRegistry
    loader, reader,                              \* a reload() and a registry reader
    proc,                                        \* one _process_block_events run
    comp,                                        \* Compositor playback state
    orch,                                        \* Orchestrator.voice, chord by chord
    prog,                                        \* a ProgressionSynth and its next() calls
    zlog,                                        \* the leave_zone calls of the zone-map runs
    arr,                                         \* ArrangementEngine: analyser cache, prepare_block calls, last return
    reap,                                        \* one reaper pass at a time over handles whose query may raise
    clk,                                         \* loop.time() and the block tasks scheduled against it
    zl,                                          \* zone loops sharing one compositor, iteration by iteration
    nb,                                          \* one next_block_events call over hands with durations
    lfo,                                         \* Maestro tempo, LFO phase (hundredths) and energy (units of 2^-54)
    mk,                                          \* the Markov walk of one _next_uncached call: bars asked, functions and numerals drawn
    tm,                                          \* a ThreadManager: its lock, threads, queue and the position of every caller and worker
    hm,                                          \* an AsyncHyperManager: its semaphore, lock, tasks and the position of every coroutine
    calls, flips, gated, zoneIters, quietPasses  \* counters of the run

vars == <<ready, batch, cur, stopping, loopAlive, cmd_queue, ack_queue,
          ackGetters, enginePc, shutdown_event, serverStopped, reaper,
          active_presets, voices, finished, current_melody, blocks, mute,
          sched, gets, shutPc, zones, tasks, ztask, warnings, calls,
          flips, gated, zoneIters, quietPasses, sfx_events, sfxLog,
          preset_map, presets_sig, presets_meta, loader, reader, dequeued,
          proc, dropped, comp, orch, prog, zlog, arr, reap, clk, zl, nb, lfo, mk, tm, hm>>

loopV == <<ready, batch, cur, stopping, loopAlive, cmd_queue, ack_queue,
           ackGetters, dequeued, dropped>>
\* the registry, whose maps the engine model reads as KnownPresets
registryV == <<preset_map, presets_sig, presets_meta, loader, reader>>
\* what the engine actions never touch
sideV == <<registryV, proc, comp, orch, prog, zlog, arr, reap, clk, zl, nb, lfo, mk, tm, hm>>

\* ------------------------------------------------------------ data shapes
NoCmd == [cmd |-> "none", preset |-> "", params |-> {}, events |-> <<>>,
          api |-> "", muted |-> FALSE, req |-> 0, seq |-> 0]

\* A command dict of cmd_queue.  api, muted, req and seq are not in the
\* dict: they record the client entry point that made it, the mute flag at
\* that call, the get_* request it belongs to, and its rank among the
\* commands put on cmd_queue.
Cmd(api, c, p, ps, evs, rq) ==
    [cmd |-> c, preset |-> p, params |-> ps, events |-> evs,
     api |-> api, muted |-> mute, req |-> rq, seq |-> 0]

\* A callback of loop._ready: k is what it does (cb: the callback of
\* run_coroutine_threadsafe, step: a task's first step, wake: a task's
\* wakeup, done: a task's done callback, cancel: Task.cancel, stop:
\* loop.stop), co the coroutine it belongs to.
Entry(k, co, id, cmd) == [k |-> k, co |-> co, id |-> id, cmd |-> cmd]

Idle == [co |-> "idle", id |-> 0]

\* ------------------------------------------------------ preset registry
\* set(presets_sig[name].parameters) - {"self", "args", "kwargs"}
Allowed(name) ==
    CASE name = "piano" -> {"notes", "durations", "intensity", "fade_in",
                            "fade_out", "fader_mul_factor", "tempo"}
      [] name = "snare" -> {"intensity", "duration", "center_freq", "fade_in",
                            "fade_out", "fader_mul_factor", "kw"}
      [] name = "chorus" -> {"visual_metric", "noise_vol", "feedback", "bal"}
      [] OTHER -> {}

\* constructor parameters without a default
Required(name) == IF name = "piano" THEN {"notes", "durations"} ELSE {}

\* a lookup that finds a class whatever the name
RegisteredAny(name) == TRUE

\* cls = self.preset_map.get(name): "if not cls" is the unknown preset
Registered(name) == name \in KnownPresets

\* a constructor with a ** parameter takes any keyword (Snare's **kw)
TakesAnyKeyword(name) == name = "snare"

\* the caller's params handed to the constructor as they are
InitArgsUnfiltered(name, params) == params

\* init_args = {k: v for k, v in params.items() if k in allowed}
InitArgs(name, params) == params \cap Allowed(name)

\* cls(**init_args) raises TypeError when a required argument is missing or
\* a keyword is given that the constructor does not take
CtorRaises(name, params) ==
    \/ ~(Required(name) \subseteq InitArgs(name, params))
    \/ ~TakesAnyKeyword(name) /\ ~(InitArgs(name, params) \subseteq Allowed(name))

\* what play() returns: a list of (Fader, Sine) tuples, a dict of nodes, or
\* one node
HandleKind(name) ==
    CASE name = "piano" -> "seq"
      [] name = "snare" -> "chain"
      [] OTHER -> "node"

\* given is not in the program: the params of the command or event
NewVoice(name, params, c, origin) ==
    [id |-> Len(voices) + 1, name |-> name, params |-> InitArgs(name, params),
     kind |-> HandleKind(name), muted |-> c.muted, origin |-> origin,
     given |-> params]

\* ------------------------------------------------------------ Init
\* callers of a ThreadManager and the names they give their threads; a
\* thread started under a name is the process of that name
TmCallers == {"c1", "c2"}

TmNames == {"a", "b", "c"}

\* a ThreadManager before ThreadManager(...) ran (max 0)
TmFresh ==
    [max |-> 0,
     lock |-> [owner |-> "none", depth |-> 0],
     threads |-> {},
     queue |-> <<>>,
     pc |-> [p \in TmCallers \cup TmNames |->
                IF p \in TmCallers THEN "idle" ELSE "off"],
     arg |-> [p \in TmCallers \cup TmNames |-> "-"],
     asked |-> {},
     returned |-> {},
     calls |-> 0]

\* the coroutines that call schedule and the names they schedule; the task
\* of a name is the process of that name
HmCallers == {"k1", "k2"}

HmNames == {"x", "y", "z"}

\* max_threads of AsyncHyperManager(max_threads=...)
HmLimit == 2

\* AsyncHyperManager.__init__
HmFresh ==
    [sem |-> HmLimit,
     lock |-> "none",
     tasks |-> {},
     pc |-> [p \in HmCallers \cup HmNames |->
                IF p \in HmCallers THEN "idle" ELSE "off"],
     arg |-> [c \in HmCallers |-> "-"],
     calls |-> 0]

Init ==
    /\ ready = <<Entry("step", "reaper", 0, NoCmd)>>
    /\ batch = 0
    /\ cur = Idle
    /\ stopping = FALSE
    /\ loopAlive = TRUE
    /\ cmd_queue = <<>>
    /\ ack_queue = <<>>
    /\ dequeued = 0
    /\ hm = HmFresh
    /\ tm = TmFresh
    /\ mk = [pc |-> "idle", n |-> 0, fns |-> <<>>, rns |-> <<>>]
    /\ lfo = [tempo |-> 120, phase |-> 2, energy |-> [hi |-> 126100789, lo |-> 56637388]]
    /\ nb = [pc |-> "idle", hands |-> <<>>, idxs |-> <<>>, beats |-> 0, acc |-> 0,
            n |-> 0, first |-> 0, prev |-> 0, last |-> 0]
    /\ zl = [loaded |-> FALSE, repo |-> {}, iters |-> 0, ticks |-> 0,
            loops |-> [z \in {"Y", "Z"} |->
                         [pc |-> "off", first |-> TRUE, blocks |-> 0]],
            last |-> [zone |-> "", raised |-> FALSE, started |-> FALSE,
                      raw |-> {}, arranged |-> {}, zero |-> 0]]
    /\ clk = [now |-> 0, tasks |-> <<>>]
    /\ reap = [active |-> <<>>, before |-> <<>>, ans |-> <<>>, examined |-> {},
              made |-> 0, passes |-> 0, raisedPasses |-> 0, pc |-> "sleeping"]
    /\ arr = [ha |-> {}, calls |-> 0, returned |-> "idle"]
    /\ zlog = [n |-> 0, never |-> FALSE, twice |-> FALSE]
    /\ prog = [genre |-> "pop", cache |-> <<>>, n |-> 0,
              first |-> [key |-> "", beats |-> 0, ts |-> "", out |-> <<>>, tries |-> 0, raised |-> FALSE],
              last |-> [key |-> "", beats |-> 0, ts |-> "", out |-> <<>>, tries |-> 0, raised |-> FALSE]]
    /\ orch = [todo |-> <<>>, fitted |-> <<>>, bass |-> <<>>, piano |-> <<>>]
    /\ dropped = 0
    /\ comp = [current_hands |-> <<>>, idxs |-> <<>>, k |-> 0, emitted |-> <<>>]
    /\ proc = [pc |-> "idle", events |-> <<>>, todo |-> <<>>, fired |-> <<>>]
    /\ ackGetters = <<>>
    /\ enginePc = "waiting"
    /\ shutdown_event = FALSE
    /\ serverStopped = FALSE
    /\ reaper = [pc |-> "created", mustCancel |-> FALSE]
    /\ active_presets = <<>>
    /\ voices = <<>>
    /\ finished = {}
    /\ current_melody = "None"
    /\ blocks = <<>>
    /\ mute = FALSE
    /\ sched = <<>>
    /\ gets = <<>>
    /\ shutPc = "idle"
    /\ zones = {}
    /\ tasks = [z \in Zones |-> 0]
    /\ ztask = <<>>
    /\ warnings = 0
    /\ sfx_events = <<>>
    /\ sfxLog = [accepted |-> {}, delivered |-> <<>>]
    /\ calls = 0
    /\ flips = 0
    /\ gated = 0
    /\ zoneIters = 0
    /\ quietPasses = 0
    /\ preset_map = KnownPresets
    /\ presets_sig = KnownPresets
    /\ presets_meta = KnownPresets
    /\ loader = [pc |-> "idle", todo |-> <<>>, new_map |-> {},
                 old |-> KnownPresets, n |-> 0,
                 fate |-> [m \in KnownPresets |-> "class"]]
    /\ reader = [pc |-> "idle", name |-> "", res |-> "", stable |-> FALSE]

\* --------------------------------------------------------- the event loop
\* _run_once takes ntodo = len(_ready) callbacks and runs them; run_forever
\* leaves after the iteration in which loop.stop ran.
CanRun(k, co) ==
    /\ loopAlive
    /\ cur = Idle
    /\ ~(batch = 0 /\ stopping)
    /\ ready # <<>>
    /\ Head(ready).k = k
    /\ Head(ready).co = co

BatchAfter == (IF batch = 0 THEN Len(ready) ELSE batch) - 1

\* Queue._wakeup_next(self._getters) of cmd_queue: the engine is its only
\* getter
EngineWakeup ==
    IF enginePc = "waiting" THEN <<Entry("wake", "engine", 0, NoCmd)>> ELSE <<>>

EngineWoken == IF enginePc = "waiting" THEN "woken" ELSE enginePc

\* Queue._wakeup_next(self._getters) of ack_queue
AckWakeup ==
    IF ackGetters # <<>>
    THEN <<Entry("wake", "get", Head(ackGetters), NoCmd)>>
    ELSE <<>>

AckGettersAfterPut == IF ackGetters # <<>> THEN Tail(ackGetters) ELSE ackGetters

\* run_forever returns once _stopping is set and the iteration is over
LoopHalt ==
    /\ loopAlive /\ cur = Idle /\ batch = 0 /\ stopping
    /\ loopAlive' = FALSE
    /\ UNCHANGED <<ready, batch, cur, stopping, cmd_queue, ack_queue,
                   ackGetters, enginePc, shutdown_event, serverStopped,
                   reaper, active_presets, voices, finished, current_melody,
                   blocks, mute, sched, gets, shutPc, zones, tasks, ztask,
                   warnings, calls, flips, gated, zoneIters, quietPasses>>
    /\ UNCHANGED <<sfx_events, sfxLog>>
    /\ UNCHANGED sideV
    /\ UNCHANGED dequeued
    /\ UNCHANGED dropped

\* loop.stop, posted by shutdown()
LoopStop ==
    /\ CanRun("stop", "loop")
    /\ ready' = Tail(ready)
    /\ batch' = BatchAfter
    /\ stopping' = TRUE
    /\ UNCHANGED <<cur, loopAlive, cmd_queue, ack_queue, ackGetters,
                   enginePc, shutdown_event, serverStopped, reaper,
                   active_presets, voices, finished, current_melody, blocks,
                   mute, sched, gets, shutPc, zones, tasks, ztask, warnings,
                   calls, flips, gated, zoneIters, quietPasses>>
    /\ UNCHANGED <<sfx_events, sfxLog>>
    /\ UNCHANGED sideV
    /\ UNCHANGED dequeued
    /\ UNCHANGED dropped

engineV == <<enginePc, shutdown_event, serverStopped, reaper, active_presets,
             voices, finished, current_melody, blocks, quietPasses>>
clientV == <<mute, sched, gets, shutPc, calls, flips, gated>>
zoneV == <<zones, tasks, ztask, warnings, zoneIters, sfx_events, sfxLog>>

\* cmd_queue.put(c) on the unbounded queue: put_nowait appends to the deque
EnqueuedFirst(q, c) == <<[c EXCEPT !.seq = dequeued + Len(q) + 1]>> \o q

Enqueued(q, c) == Append(q, [c EXCEPT !.seq = dequeued + Len(q) + 1])

\* ------------------------------------- run_coroutine_threadsafe(cmd_queue.put)
\* the callback posted by run_coroutine_threadsafe: ensure_future(coro)
\* schedules the task's first step
PutCallback ==
    /\ CanRun("cb", "put")
    /\ ready' = Tail(ready) \o <<Entry("step", "put", Head(ready).id, Head(ready).cmd)>>
    /\ batch' = BatchAfter
    /\ UNCHANGED <<cur, stopping, loopAlive, cmd_queue, ack_queue, ackGetters>>
    /\ UNCHANGED <<engineV, clientV, zoneV>>
    /\ UNCHANGED sideV
    /\ UNCHANGED dequeued
    /\ UNCHANGED dropped

\* cmd_queue.put(cmd): the queue is unbounded, so put_nowait at once; the
\* waiting getter is woken, the task ends and its done callback is scheduled
PutStep ==
    /\ CanRun("step", "put")
    /\ cmd_queue' = Enqueued(cmd_queue, Head(ready).cmd)
    /\ enginePc' = EngineWoken
    /\ ready' = Tail(ready) \o EngineWakeup
                  \o <<Entry("done", "put", Head(ready).id, NoCmd)>>
    /\ batch' = BatchAfter
    /\ UNCHANGED <<cur, stopping, loopAlive, ack_queue, ackGetters,
                   shutdown_event, serverStopped, reaper, active_presets,
                   voices, finished, current_melody, blocks, quietPasses>>
    /\ UNCHANGED <<clientV, zoneV>>
    /\ UNCHANGED sideV
    /\ UNCHANGED dequeued
    /\ UNCHANGED dropped

\* the done callback copies the task's result to the concurrent future;
\* shutdown() is the one caller that waits for it (.result())
PutDone ==
    /\ CanRun("done", "put")
    /\ ready' = Tail(ready)
    /\ batch' = BatchAfter
    /\ shutPc' = IF Head(ready).id = 1 /\ shutPc = "putting" THEN "put_done" ELSE shutPc
    /\ UNCHANGED <<cur, stopping, loopAlive, cmd_queue, ack_queue, ackGetters,
                   mute, sched, gets, calls, flips, gated>>
    /\ UNCHANGED <<engineV, zoneV>>
    /\ UNCHANGED sideV
    /\ UNCHANGED dequeued
    /\ UNCHANGED dropped

\* ------------------------------------------------------- AudioEngine.run
\* the run task resumes: from cmd_queue.get(), or from awaiting the
\* cancelled reaper, after which it stops the audio server and ends
EngineWake ==
    /\ CanRun("wake", "engine")
    /\ ready' = Tail(ready)
    /\ batch' = BatchAfter
    /\ IF enginePc = "await_cleanup"
       THEN /\ enginePc' = "finished"
            /\ serverStopped' = TRUE
            /\ cur' = cur
       ELSE /\ enginePc' = "running"
            /\ cur' = [co |-> "engine", id |-> 0]
            /\ serverStopped' = serverStopped
    /\ UNCHANGED <<stopping, loopAlive, cmd_queue, ack_queue, ackGetters,
                   shutdown_event, reaper, active_presets, voices, finished,
                   current_melody, blocks, quietPasses>>
    /\ UNCHANGED <<clientV, zoneV>>
    /\ UNCHANGED sideV
    /\ UNCHANGED dequeued
    /\ UNCHANGED dropped

\* the guard of every handler: the run loop holds the thread, the shutdown
\* flag is clear and the head of cmd_queue is a `c` command
Handling(c) ==
    /\ cur.co = "engine"
    /\ ~shutdown_event
    /\ cmd_queue # <<>>
    /\ Head(cmd_queue).cmd = c

\* cmd_queue.get() on an empty queue: the run task suspends
EngineSuspend ==
    /\ cur.co = "engine" /\ ~shutdown_event /\ cmd_queue = <<>>
    /\ enginePc' = "waiting"
    /\ cur' = Idle
    /\ UNCHANGED <<ready, batch, stopping, loopAlive, cmd_queue, ack_queue,
                   ackGetters, shutdown_event, serverStopped, reaper,
                   active_presets, voices, finished, current_melody, blocks,
                   quietPasses>>
    /\ UNCHANGED <<clientV, zoneV>>
    /\ UNCHANGED sideV
    /\ UNCHANGED dequeued
    /\ UNCHANGED dropped

\* _handle_play_preset.  An unknown name returns; a constructor that raises
\* leaves run() through the finally clause (only CancelledError is caught);
\* otherwise the voice is tracked and {"ok": True} is put on ack_queue.
HandlePlayPreset ==
    /\ Handling("play_preset")
    /\ LET c == Head(cmd_queue) IN
       /\ cmd_queue' = Tail(cmd_queue)
       /\ IF ~Registered(c.preset)
          THEN UNCHANGED <<ready, ack_queue, ackGetters, gets, enginePc, cur,
                           active_presets, voices, quietPasses>>
          ELSE IF CtorRaises(c.preset, c.params)
          THEN /\ enginePc' = "crashed"
               /\ cur' = Idle
               /\ UNCHANGED <<ready, ack_queue, ackGetters, gets,
                              active_presets, voices, quietPasses>>
          ELSE LET v == NewVoice(c.preset, c.params, c, "preset") IN
               /\ voices' = Append(voices, v)
               /\ active_presets' = Append(active_presets, v)
               /\ ack_queue' = Append(ack_queue,
                      [ack |-> "ok", data |-> <<>>, melody |-> "", req |-> 0,
                       expect |-> {}])
               /\ ready' = ready \o AckWakeup
               /\ ackGetters' = AckGettersAfterPut
               /\ gets' = IF ackGetters # <<>>
                          THEN [gets EXCEPT ![Head(ackGetters)].pc = "woken"]
                          ELSE gets
               /\ quietPasses' = 0
               /\ UNCHANGED <<enginePc, cur>>
    /\ UNCHANGED <<batch, stopping, loopAlive, shutdown_event, serverStopped,
                   reaper, finished, current_melody, blocks, mute, sched,
                   shutPc, calls, flips, gated>>
    /\ UNCHANGED zoneV
    /\ UNCHANGED sideV
    /\ dequeued' = dequeued + 1
    /\ dropped' = IF Registered(Head(cmd_queue).preset) THEN dropped
                ELSE Head(cmd_queue).seq

\* _handle_play_block: current_melody = cmd.get("name", "custom_melody");
\* asyncio.create_task(self._process_block_events(events))
HandlePlayBlock ==
    /\ Handling("play_block")
    /\ LET c == Head(cmd_queue) IN
       /\ cmd_queue' = Tail(cmd_queue)
       /\ current_melody' = "custom_melody"
       /\ blocks' = Append(blocks, [pc |-> "created", evs |-> c.events,
                                    muted |-> c.muted])
       /\ ready' = ready \o <<Entry("step", "block", Len(blocks) + 1, NoCmd)>>
    /\ UNCHANGED <<batch, cur, stopping, loopAlive, ack_queue, ackGetters,
                   enginePc, shutdown_event, serverStopped, reaper,
                   active_presets, voices, finished, quietPasses>>
    /\ UNCHANGED <<clientV, zoneV>>
    /\ UNCHANGED sideV
    /\ dequeued' = dequeued + 1
    /\ UNCHANGED dropped

\* the voices of _voices that block events fired
BlockVoiceIds == {voices[i].id : i \in {j \in 1..Len(voices) : voices[j].origin = "block"}}

\* _handle_get_active_presets / _handle_get_current_melody: the reply is put
\* on ack_queue
HandleGet ==
    /\ \/ Handling("get_active_presets")
       \/ Handling("get_current_melody")
    /\ LET c == Head(cmd_queue) IN
       /\ cmd_queue' = Tail(cmd_queue)
       /\ ack_queue' = Append(ack_queue,
              [ack |-> c.cmd,
               data |-> IF c.cmd = "get_active_presets" THEN active_presets ELSE <<>>,
               melody |-> IF c.cmd = "get_current_melody" THEN current_melody ELSE "",
               req |-> c.req,
               expect |-> BlockVoiceIds])
       /\ ready' = ready \o AckWakeup
       /\ ackGetters' = AckGettersAfterPut
       /\ gets' = IF ackGetters # <<>>
                  THEN [gets EXCEPT ![Head(ackGetters)].pc = "woken"]
                  ELSE gets
    /\ UNCHANGED <<batch, cur, stopping, loopAlive, mute, sched, shutPc, calls, flips, gated>>
    /\ UNCHANGED <<engineV, zoneV>>
    /\ UNCHANGED sideV
    /\ dequeued' = dequeued + 1
    /\ UNCHANGED dropped

\* case "stop": self.shutdown_event.set()
HandleStop ==
    /\ Handling("stop")
    /\ cmd_queue' = Tail(cmd_queue)
    /\ shutdown_event' = TRUE
    /\ UNCHANGED <<ready, batch, cur, stopping, loopAlive, ack_queue,
                   ackGetters, enginePc, serverStopped, reaper,
                   active_presets, voices, finished, current_melody, blocks,
                   quietPasses>>
    /\ UNCHANGED <<clientV, zoneV>>
    /\ UNCHANGED sideV
    /\ dequeued' = dequeued + 1
    /\ UNCHANGED dropped

\* after the while loop: self._cleanup_task.cancel(); await self._cleanup_task.
\* A sleeping reaper has its sleep cancelled and is woken; one whose step is
\* already scheduled is marked; awaiting a finished task does not suspend.
EngineShutdown ==
    /\ cur.co = "engine" /\ shutdown_event
    /\ cur' = Idle
    /\ IF reaper.pc \in {"done", "cancelled"}
       THEN /\ enginePc' = "finished"
            /\ serverStopped' = TRUE
            /\ UNCHANGED <<reaper, ready>>
       ELSE /\ enginePc' = "await_cleanup"
            /\ serverStopped' = serverStopped
            /\ reaper' = [pc |-> IF reaper.pc = "sleeping" THEN "woken" ELSE reaper.pc,
                          mustCancel |-> TRUE]
            /\ ready' = IF reaper.pc = "sleeping"
                        THEN Append(ready, Entry("wake", "reaper", 0, NoCmd))
                        ELSE ready
    /\ UNCHANGED <<batch, stopping, loopAlive, cmd_queue, ack_queue,
                   ackGetters, shutdown_event, active_presets, voices,
                   finished, current_melody, blocks, quietPasses>>
    /\ UNCHANGED <<clientV, zoneV>>
    /\ UNCHANGED sideV
    /\ UNCHANGED dequeued
    /\ UNCHANGED dropped

\* --------------------------------------------------- the reaper task
\* "isinstance(instance, list)": the elements are (Fader, Sine) tuples, none
\* has isDone, so fader_found stays False and the voice is kept; a node is
\* removed when isPlaying() is false; a dict has neither query and is kept.
ReaperKeeps(v) ==
    CASE v.kind = "seq" -> TRUE
      [] v.kind = "node" -> v.id \notin finished
      [] OTHER -> TRUE

\* _cleanup_stopped_presets
CleanedPresets == SelectSeq(active_presets, ReaperKeeps)

\* no command is queued or on its way, no block is still firing events, and
\* the lifetime of every active voice has elapsed
Quiet ==
    /\ cmd_queue = <<>>
    /\ cur = Idle
    /\ \A i \in 1..Len(ready) : ready[i].co \notin {"put", "get", "block", "zone"}
    /\ \A b \in 1..Len(blocks) : blocks[b].pc \in {"done", "crashed"}
    /\ \A t \in 1..Len(ztask) : ztask[t].pc = "done"
    /\ \A i \in 1..Len(active_presets) : active_presets[i].id \in finished

\* the run task awaits the reaper: its wakeup is scheduled when the reaper ends
ReaperEnded ==
    IF enginePc = "await_cleanup" THEN <<Entry("wake", "engine", 0, NoCmd)>> ELSE <<>>

\* first step of _periodic_cleanup_task: up to asyncio.sleep(CLEANUP_INTERVAL)
ReaperStep ==
    /\ CanRun("step", "reaper")
    /\ batch' = BatchAfter
    /\ IF reaper.mustCancel
       THEN /\ reaper' = [reaper EXCEPT !.pc = "cancelled"]
            /\ ready' = Tail(ready) \o ReaperEnded
       ELSE /\ reaper' = [reaper EXCEPT !.pc = IF shutdown_event THEN "done" ELSE "sleeping"]
            /\ ready' = Tail(ready)
    /\ UNCHANGED <<cur, stopping, loopAlive, cmd_queue, ack_queue, ackGetters,
                   enginePc, shutdown_event, serverStopped, active_presets,
                   voices, finished, current_melody, blocks, quietPasses>>
    /\ UNCHANGED <<clientV, zoneV>>
    /\ UNCHANGED sideV
    /\ UNCHANGED dequeued
    /\ UNCHANGED dropped

\* the sleep is over: a cancelled reaper ends with CancelledError; otherwise
\* it re-checks the flag, runs _cleanup_stopped_presets and sleeps again
ReaperWake ==
    /\ CanRun("wake", "reaper")
    /\ batch' = BatchAfter
    /\ IF reaper.mustCancel
       THEN /\ reaper' = [reaper EXCEPT !.pc = "cancelled"]
            /\ ready' = Tail(ready) \o ReaperEnded
            /\ UNCHANGED <<active_presets, quietPasses>>
       ELSE IF shutdown_event
       THEN /\ reaper' = [reaper EXCEPT !.pc = "done"]
            /\ ready' = Tail(ready) \o ReaperEnded
            /\ UNCHANGED <<active_presets, quietPasses>>
       ELSE /\ reaper' = [reaper EXCEPT !.pc = "sleeping"]
            /\ ready' = Tail(ready)
            /\ active_presets' = CleanedPresets
            /\ quietPasses' = IF Quiet
                              THEN (IF quietPasses < 2 THEN quietPasses + 1 ELSE 2)
                              ELSE 0
    /\ UNCHANGED <<cur, stopping, loopAlive, cmd_queue, ack_queue, ackGetters,
                   enginePc, shutdown_event, serverStopped, voices, finished,
                   current_melody, blocks>>
    /\ UNCHANGED <<clientV, zoneV>>
    /\ UNCHANGED sideV
    /\ UNCHANGED dequeued
    /\ UNCHANGED dropped

\* a timer of the loop is due at the start of a _run_once iteration:
\* the sleeping task's wakeup joins _ready
AtIteration == loopAlive /\ cur = Idle /\ batch = 0 /\ ~stopping

ReaperTimer ==
    /\ AtIteration
    /\ reaper.pc = "sleeping"
    /\ reaper' = [reaper EXCEPT !.pc = "woken"]
    /\ ready' = Append(ready, Entry("wake", "reaper", 0, NoCmd))
    /\ UNCHANGED <<batch, cur, stopping, loopAlive, cmd_queue, ack_queue,
                   ackGetters, enginePc, shutdown_event, serverStopped,
                   active_presets, voices, finished, current_melody, blocks,
                   quietPasses>>
    /\ UNCHANGED <<clientV, zoneV>>
    /\ UNCHANGED sideV
    /\ UNCHANGED dequeued
    /\ UNCHANGED dropped

\* the audio library ends a voice: its envelopes are done, its node stops
VoiceFinish ==
    /\ \E i \in 1..Len(active_presets) :
          /\ active_presets[i].id \notin finished
          /\ finished' = finished \cup {active_presets[i].id}
    /\ UNCHANGED <<ready, batch, cur, stopping, loopAlive, cmd_queue,
                   ack_queue, ackGetters, enginePc, shutdown_event,
                   serverStopped, reaper, active_presets, voices,
                   current_melody, blocks, quietPasses>>
    /\ UNCHANGED <<clientV, zoneV>>
    /\ UNCHANGED sideV
    /\ UNCHANGED dequeued
    /\ UNCHANGED dropped

\* ------------------------------------------------ _process_block_events
Ev(off, p, ps) == [time_offset |-> off, preset |-> p, params |-> ps]

\* an insertion that puts the new event before the events of equal offset
RECURSIVE InsertEventBeforeTies(_, _)
InsertEventBeforeTies(s, e) ==
    IF s = <<>> THEN <<e>>
    ELSE IF Head(s).time_offset < e.time_offset
         THEN <<Head(s)>> \o InsertEventBeforeTies(Tail(s), e)
         ELSE <<e>> \o s

\* sorted(events, key=lambda e: e["time_offset"]): a stable sort
RECURSIVE InsertEvent(_, _)
InsertEvent(s, e) ==
    IF s = <<>> THEN <<e>>
    ELSE IF Head(s).time_offset <= e.time_offset
         THEN <<Head(s)>> \o InsertEvent(Tail(s), e)
         ELSE <<e>> \o s

RECURSIVE SortedEvents(_)
SortedEvents(evs) ==
    IF evs = <<>> THEN <<>>
    ELSE InsertEvent(SortedEvents(SubSeq(evs, 1, Len(evs) - 1)), evs[Len(evs)])

\* await asyncio.sleep(max(0, start + offset - now)) before the next event;
\* sleep(0) yields once and the task is rescheduled at once
BlockSuspend(b, evs) ==
    /\ blocks' = [blocks EXCEPT ![b].evs = evs,
                                ![b].pc = IF evs = <<>> THEN "done"
                                          ELSE IF Head(evs).time_offset = 0 THEN "woken"
                                          ELSE "sleeping"]
    /\ ready' = IF evs # <<>> /\ Head(evs).time_offset = 0
                THEN Append(Tail(ready), Entry("wake", "block", b, NoCmd))
                ELSE Tail(ready)

BlockStep ==
    /\ CanRun("step", "block")
    /\ batch' = BatchAfter
    /\ BlockSuspend(Head(ready).id, SortedEvents(blocks[Head(ready).id].evs))
    /\ UNCHANGED <<cur, stopping, loopAlive, cmd_queue, ack_queue, ackGetters,
                   enginePc, shutdown_event, serverStopped, reaper,
                   active_presets, voices, finished, current_melody,
                   quietPasses>>
    /\ UNCHANGED <<clientV, zoneV>>
    /\ UNCHANGED sideV
    /\ UNCHANGED dequeued
    /\ UNCHANGED dropped

\* the sleep before an event is over: fire it.  An unknown preset is
\* skipped; a constructor that raises ends the task; otherwise the handle is
\* appended to _voices.
BlockWake ==
    /\ CanRun("wake", "block")
    /\ batch' = BatchAfter
    /\ LET b == Head(ready).id
           ev == Head(blocks[b].evs)
       IN IF ev.preset \notin KnownPresets
          THEN /\ BlockSuspend(b, Tail(blocks[b].evs))
               /\ UNCHANGED <<voices, quietPasses>>
          ELSE IF CtorRaises(ev.preset, ev.params)
          THEN /\ blocks' = [blocks EXCEPT ![b].pc = "crashed"]
               /\ ready' = Tail(ready)
               /\ UNCHANGED <<voices, quietPasses>>
          ELSE /\ voices' = Append(voices,
                      NewVoice(ev.preset, ev.params, blocks[b], "block"))
               /\ quietPasses' = 0
               /\ BlockSuspend(b, Tail(blocks[b].evs))
    /\ UNCHANGED <<cur, stopping, loopAlive, cmd_queue, ack_queue, ackGetters,
                   enginePc, shutdown_event, serverStopped, reaper,
                   active_presets, finished, current_melody>>
    /\ UNCHANGED <<clientV, zoneV>>
    /\ UNCHANGED sideV
    /\ UNCHANGED dequeued
    /\ UNCHANGED dropped

BlockTimer ==
    /\ AtIteration
    /\ \E b \in 1..Len(blocks) :
          /\ blocks[b].pc = "sleeping"
          /\ blocks' = [blocks EXCEPT ![b].pc = "woken"]
          /\ ready' = Append(ready, Entry("wake", "block", b, NoCmd))
    /\ UNCHANGED <<batch, cur, stopping, loopAlive, cmd_queue, ack_queue,
                   ackGetters, enginePc, shutdown_event, serverStopped,
                   reaper, active_presets, voices, finished, current_melody,
                   quietPasses>>
    /\ UNCHANGED <<clientV, zoneV>>
    /\ UNCHANGED sideV
    /\ UNCHANGED dequeued
    /\ UNCHANGED dropped

\* ------------------------------------------------- AudioEngineClient
\* run_coroutine_threadsafe(self.cmd_queue.put(cmd), self.loop)
PutEntry(id, cmd) == <<Entry("cb", "put", id, cmd)>>

\* stop_all(): "for p in list(self._sched): self.stop_preset(p)", each
\* stop_preset enqueuing a play_preset with intensity 0
StopAllEntries ==
    [i \in 1..Len(sched) |->
        Entry("cb", "put", 0, Cmd("stop_preset", "play_preset", sched[i], StopParams, <<>>, 0))]

\* play_preset with the mute gate taken out: the put happens whatever mute is
PlayPresetEntriesNoGate(p, ps) ==
    PutEntry(0, Cmd("play_preset", "play_preset", p, ps, <<>>, 0))

\* play_preset(preset, **params): the mute gate, then the put
PlayPresetEntries(p, ps) ==
    IF mute THEN StopAllEntries
    ELSE PutEntry(0, Cmd("play_preset", "play_preset", p, ps, <<>>, 0))

\* play_block(events), called by a caller thread or by a zone loop
PlayBlockEntries(evs) ==
    IF mute THEN StopAllEntries
    ELSE PutEntry(0, Cmd("play_block", "play_block", "", {}, evs, 0))

BlockChoices ==
    { <<Ev(0, "snare", {}), Ev(1, "snare", {})>>,
      <<Ev(1, "piano", {}), Ev(0, "lead", {})>> }

PlayPreset ==
    /\ calls < MaxCalls
    /\ \E p \in PresetNames, ps \in ParamChoices :
          ready' = ready \o PlayPresetEntries(p, ps)
    /\ sched' = IF mute THEN <<>> ELSE sched
    /\ calls' = calls + 1
    /\ gated' = IF mute THEN gated + 1 ELSE gated
    /\ flips' = flips
    /\ quietPasses' = 0
    /\ UNCHANGED <<batch, cur, stopping, loopAlive, cmd_queue, ack_queue,
                   ackGetters, enginePc, shutdown_event, serverStopped,
                   reaper, active_presets, voices, finished, current_melody,
                   blocks, mute, gets, shutPc>>
    /\ UNCHANGED zoneV
    /\ UNCHANGED sideV
    /\ UNCHANGED dequeued
    /\ UNCHANGED dropped

PlayBlock ==
    /\ calls < MaxCalls
    /\ \E evs \in BlockChoices : ready' = ready \o PlayBlockEntries(evs)
    /\ sched' = IF mute THEN <<>> ELSE sched
    /\ calls' = calls + 1
    /\ gated' = IF mute THEN gated + 1 ELSE gated
    /\ flips' = flips
    /\ quietPasses' = 0
    /\ UNCHANGED <<batch, cur, stopping, loopAlive, cmd_queue, ack_queue,
                   ackGetters, enginePc, shutdown_event, serverStopped,
                   reaper, active_presets, voices, finished, current_melody,
                   blocks, mute, gets, shutPc>>
    /\ UNCHANGED zoneV
    /\ UNCHANGED sideV
    /\ UNCHANGED dequeued
    /\ UNCHANGED dropped

\* stop_preset(preset, fade=1.0): no mute gate; the fade is a play_preset
\* command with intensity 0; the preset's scheduler entry is dropped
StopPreset ==
    /\ calls < MaxCalls
    /\ \E p \in PresetNames :
          /\ ready' = ready \o PutEntry(0, Cmd("stop_preset", "play_preset", p, StopParams, <<>>, 0))
          /\ sched' = SelectSeq(sched, LAMBDA q : q # p)
    /\ calls' = calls + 1
    /\ gated' = gated
    /\ flips' = flips
    /\ quietPasses' = 0
    /\ UNCHANGED <<batch, cur, stopping, loopAlive, cmd_queue, ack_queue,
                   ackGetters, enginePc, shutdown_event, serverStopped,
                   reaper, active_presets, voices, finished, current_melody,
                   blocks, mute, gets, shutPc>>
    /\ UNCHANGED zoneV
    /\ UNCHANGED sideV
    /\ UNCHANGED dequeued
    /\ UNCHANGED dropped

StopAll ==
    /\ calls < MaxCalls
    /\ ready' = ready \o StopAllEntries
    /\ sched' = <<>>
    /\ calls' = calls + 1
    /\ gated' = gated
    /\ flips' = flips
    /\ UNCHANGED <<batch, cur, stopping, loopAlive, cmd_queue, ack_queue,
                   ackGetters, mute, gets, shutPc>>
    /\ UNCHANGED <<engineV, zoneV>>
    /\ UNCHANGED sideV
    /\ UNCHANGED dequeued
    /\ UNCHANGED dropped

\* client.maestro.mute = b, set by the caller (the GUI)
SetMute ==
    /\ flips < MaxMuteFlips
    /\ mute' = ~mute
    /\ flips' = flips + 1
    /\ UNCHANGED <<calls, gated>>
    /\ UNCHANGED <<ready, batch, cur, stopping, loopAlive, cmd_queue,
                   ack_queue, ackGetters, sched, gets, shutPc>>
    /\ UNCHANGED <<engineV, zoneV>>
    /\ UNCHANGED sideV
    /\ UNCHANGED dequeued
    /\ UNCHANGED dropped

\* ---------------------------------- get_active_presets / get_current_melody
\* the caller posts the coroutine and blocks in future.result(timeout=5);
\* with the loop not running it returns None at once
GetCall ==
    /\ calls < MaxCalls
    /\ \E kind \in {"get_active_presets", "get_current_melody"} :
          /\ gets' = Append(gets,
                 [kind |-> kind, pc |-> IF loopAlive THEN "cb" ELSE "none",
                  got |-> 0, res |-> "None",
                  caller |-> IF loopAlive THEN "blocked" ELSE "returned"])
          /\ ready' = IF loopAlive
                      THEN Append(ready, Entry("cb", "get", Len(gets) + 1, NoCmd))
                      ELSE ready
    /\ calls' = calls + 1
    /\ gated' = gated
    /\ flips' = flips
    /\ quietPasses' = 0
    /\ UNCHANGED <<batch, cur, stopping, loopAlive, cmd_queue, ack_queue,
                   ackGetters, enginePc, shutdown_event, serverStopped,
                   reaper, active_presets, voices, finished, current_melody,
                   blocks, mute, sched, shutPc>>
    /\ UNCHANGED zoneV
    /\ UNCHANGED sideV
    /\ UNCHANGED dequeued
    /\ UNCHANGED dropped

GetCallback ==
    /\ CanRun("cb", "get")
    /\ ready' = Append(Tail(ready), Entry("step", "get", Head(ready).id, NoCmd))
    /\ batch' = BatchAfter
    /\ gets' = [gets EXCEPT ![Head(ready).id].pc = "step"]
    /\ UNCHANGED <<cur, stopping, loopAlive, cmd_queue, ack_queue, ackGetters,
                   mute, sched, shutPc, calls, flips, gated>>
    /\ UNCHANGED <<engineV, zoneV>>
    /\ UNCHANGED sideV
    /\ UNCHANGED dequeued
    /\ UNCHANGED dropped

\* "response = await self.ack_queue.get()": the coroutine takes the next
\* item of ack_queue, whatever it is; the data is returned only when the
\* item's "ack" names the request's kind
Consumed(g, a) ==
    [g EXCEPT !.pc = "done", !.got = a.req,
              !.res = IF a.ack = g.kind THEN "data" ELSE "None"]

\* _get_*_async up to its first suspension: put the command, then take the
\* head of ack_queue or wait as a getter
GetStep ==
    /\ CanRun("step", "get")
    /\ batch' = BatchAfter
    /\ LET id == Head(ready).id IN
       /\ cmd_queue' = Enqueued(cmd_queue, Cmd(gets[id].kind, gets[id].kind, "", {}, <<>>, id))
       /\ enginePc' = EngineWoken
       /\ IF ack_queue # <<>>
          THEN /\ gets' = [gets EXCEPT ![id] = Consumed(gets[id], Head(ack_queue))]
               /\ ack_queue' = Tail(ack_queue)
               /\ ackGetters' = ackGetters
               /\ ready' = Tail(ready) \o EngineWakeup
                             \o <<Entry("done", "get", id, NoCmd)>>
          ELSE /\ gets' = [gets EXCEPT ![id].pc = "waiting"]
               /\ ackGetters' = Append(ackGetters, id)
               /\ ack_queue' = ack_queue
               /\ ready' = Tail(ready) \o EngineWakeup
    /\ UNCHANGED <<cur, stopping, loopAlive, shutdown_event, serverStopped,
                   reaper, active_presets, voices, finished, current_melody,
                   blocks, quietPasses, mute, sched, shutPc, calls, flips, gated>>
    /\ UNCHANGED zoneV
    /\ UNCHANGED sideV
    /\ UNCHANGED dequeued
    /\ UNCHANGED dropped

\* a woken getter takes the head of ack_queue, or waits again when another
\* getter emptied the queue first
GetWake ==
    /\ CanRun("wake", "get")
    /\ batch' = BatchAfter
    /\ LET id == Head(ready).id IN
       IF ack_queue # <<>>
       THEN /\ gets' = [gets EXCEPT ![id] = Consumed(gets[id], Head(ack_queue))]
            /\ ack_queue' = Tail(ack_queue)
            /\ ackGetters' = ackGetters
            /\ ready' = Append(Tail(ready), Entry("done", "get", id, NoCmd))
       ELSE /\ gets' = [gets EXCEPT ![id].pc = "waiting"]
            /\ ackGetters' = Append(ackGetters, id)
            /\ ack_queue' = ack_queue
            /\ ready' = Tail(ready)
    /\ UNCHANGED <<cur, stopping, loopAlive, cmd_queue, mute, sched, shutPc, calls, flips, gated>>
    /\ UNCHANGED <<engineV, zoneV>>
    /\ UNCHANGED sideV
    /\ UNCHANGED dequeued
    /\ UNCHANGED dropped

\* the done callback hands the result to the blocked caller
GetDone ==
    /\ CanRun("done", "get")
    /\ ready' = Tail(ready)
    /\ batch' = BatchAfter
    /\ gets' = [gets EXCEPT ![Head(ready).id].caller =
                   IF @ = "blocked" THEN "returned" ELSE @]
    /\ UNCHANGED <<cur, stopping, loopAlive, cmd_queue, ack_queue, ackGetters,
                   mute, sched, shutPc, calls, flips, gated>>
    /\ UNCHANGED <<engineV, zoneV>>
    /\ UNCHANGED sideV
    /\ UNCHANGED dequeued
    /\ UNCHANGED dropped

\* future.result(timeout=5) gives up: the call returns None, the coroutine
\* stays on the loop
GetTimeout ==
    /\ \E id \in 1..Len(gets) :
          /\ gets[id].caller = "blocked"
          /\ gets' = [gets EXCEPT ![id].caller = "timeout"]
    /\ UNCHANGED <<ready, batch, cur, stopping, loopAlive, cmd_queue,
                   ack_queue, ackGetters, mute, sched, shutPc, calls, flips, gated>>
    /\ UNCHANGED <<engineV, zoneV>>
    /\ UNCHANGED sideV
    /\ UNCHANGED dequeued
    /\ UNCHANGED dropped

\* ------------------------------------------------------------ shutdown()
\* run_coroutine_threadsafe(self.cmd_queue.put({"cmd": "stop"})).result()
ShutdownCall ==
    /\ calls < MaxCalls
    /\ shutPc = "idle"
    /\ ready' = ready \o PutEntry(1, Cmd("shutdown", "stop", "", {}, <<>>, 0))
    /\ shutPc' = "putting"
    /\ calls' = calls + 1
    /\ gated' = gated
    /\ flips' = flips
    /\ quietPasses' = 0
    /\ UNCHANGED <<batch, cur, stopping, loopAlive, cmd_queue, ack_queue,
                   ackGetters, enginePc, shutdown_event, serverStopped,
                   reaper, active_presets, voices, finished, current_melody,
                   blocks, mute, sched, gets>>
    /\ UNCHANGED zoneV
    /\ UNCHANGED sideV
    /\ UNCHANGED dequeued
    /\ UNCHANGED dropped

\* self.loop.call_soon_threadsafe(self.loop.stop)
ShutdownStopLoop ==
    /\ shutPc = "put_done"
    /\ ready' = Append(ready, Entry("stop", "loop", 0, NoCmd))
    /\ shutPc' = "joining"
    /\ UNCHANGED <<batch, cur, stopping, loopAlive, cmd_queue, ack_queue,
                   ackGetters, mute, sched, gets, calls, flips, gated>>
    /\ UNCHANGED <<engineV, zoneV>>
    /\ UNCHANGED sideV
    /\ UNCHANGED dequeued
    /\ UNCHANGED dropped

\* self._thread.join(timeout=2): the loop thread has left run_forever, or
\* the two seconds pass while a zone loop keeps the thread
ShutdownReturn ==
    /\ shutPc = "joining"
    /\ ~loopAlive \/ (cur.co = "zone" /\ mute)
    /\ shutPc' = "returned"
    /\ UNCHANGED <<ready, batch, cur, stopping, loopAlive, cmd_queue,
                   ack_queue, ackGetters, mute, sched, gets, calls, flips, gated>>
    /\ UNCHANGED <<engineV, zoneV>>
    /\ UNCHANGED sideV
    /\ UNCHANGED dequeued
    /\ UNCHANGED dropped

\* --------------------------------------------------------------- Maestro
ZoneEvents == <<Ev(0, "piano", {"notes", "durations", "intensity", "tempo"})>>

\* concurrent.futures.Future.cancel() on the future of zone task t: a
\* pending future becomes cancelled, and once the loop has chained it to
\* its task, Task.cancel is posted with call_soon_threadsafe
FutCancelled(zt, t) ==
    IF t # 0 /\ zt[t].fut = "pending" THEN [zt EXCEPT ![t].fut = "cancelled"] ELSE zt

CancelEntries(t) ==
    IF t # 0 /\ ztask[t].fut = "pending" /\ ztask[t].pc # "new"
    THEN <<Entry("cancel", "zone", t, NoCmd)>>
    ELSE <<>>

\* an event of the SFX queue, with the caller's params dict; sfx tells the
\* queue_sfx calls apart
SfxEv(id) ==
    [time_offset |-> 0, preset |-> "snare", params |-> {"gain_db"}, sfx |-> id]

\* the queue_sfx calls whose events are in the event list evs
SfxIds(evs) ==
    LET own == SelectSeq(evs, LAMBDA e : "sfx" \in DOMAIN e)
    IN [i \in 1..Len(own) |-> own[i].sfx]

\* queue_sfx(name, delay=0.0, params=None), called by a caller thread.  With
\* mute set it refers to the undefined name `zone` and raises NameError;
\* otherwise the event is appended to self.sfx_events.
QueueSfx ==
    /\ calls < MaxCalls
    /\ calls' = calls + 1
    /\ IF mute
       THEN UNCHANGED <<sfx_events, sfxLog>>
       ELSE /\ sfx_events' = Append(sfx_events, SfxEv(calls + 1))
            /\ sfxLog' = [sfxLog EXCEPT !.accepted = @ \cup {calls + 1}]
    /\ UNCHANGED <<ready, batch, cur, stopping, loopAlive, cmd_queue, ack_queue,
                   ackGetters, mute, sched, gets, shutPc, flips, gated,
                   zones, tasks, ztask, warnings, zoneIters>>
    /\ UNCHANGED engineV
    /\ UNCHANGED sideV
    /\ UNCHANGED dequeued
    /\ UNCHANGED dropped

NewZoneTask(z) ==
    [zone |-> z, pc |-> "new", fut |-> "pending", mustCancel |-> FALSE,
     left |-> FALSE, nblocks |-> 0, events |-> <<>>]

\* enter_zone(zone, presets) / set_zone
EnterZone(z) ==
    /\ calls < MaxCalls
    /\ calls' = calls + 1
    /\ gated' = gated
    /\ flips' = flips
    /\ IF mute
       THEN /\ tasks' = [tasks EXCEPT ![z] = 0]
            /\ ztask' = FutCancelled(ztask, tasks[z])
            /\ ready' = ready \o CancelEntries(tasks[z]) \o StopAllEntries
            /\ sched' = <<>>
            /\ UNCHANGED <<zones, zoneIters>>
       ELSE /\ zoneIters < MaxZoneIters
            /\ zoneIters' = zoneIters + 1
            /\ ztask' = Append(FutCancelled(ztask, tasks[z]), NewZoneTask(z))
            /\ tasks' = [tasks EXCEPT ![z] = Len(ztask) + 1]
            /\ zones' = zones \cup {z}
            /\ ready' = ready \o CancelEntries(tasks[z])
                          \o <<Entry("cb", "zone", Len(ztask) + 1, NoCmd)>>
            /\ sched' = sched
    /\ UNCHANGED <<batch, cur, stopping, loopAlive, cmd_queue, ack_queue,
                   ackGetters, mute, gets, shutPc, warnings>>
    /\ UNCHANGED engineV
    /\ UNCHANGED <<sfx_events, sfxLog>>
    /\ UNCHANGED sideV
    /\ UNCHANGED dequeued
    /\ UNCHANGED dropped

\* leave_zone with its second statement left out
LeaveZoneKeepsZone(z) ==
    /\ tasks' = [tasks EXCEPT ![z] = 0]
    /\ zones' = zones
    /\ ztask' = [t \in 1..Len(ztask) |->
                    IF ztask[t].zone = z
                    THEN [FutCancelled(ztask, tasks[z])[t] EXCEPT !.left = TRUE]
                    ELSE ztask[t]]
    /\ ready' = ready \o CancelEntries(tasks[z])

\* leave_zone(zone): "if fut := self.tasks.pop(zone, None): fut.cancel()";
\* self.zones.pop(zone, None).  left records, on every task of the zone,
\* that leave_zone has returned.
LeaveZoneMaps(z) ==
    /\ tasks' = [tasks EXCEPT ![z] = 0]
    /\ zones' = zones \ {z}
    /\ ztask' = [t \in 1..Len(ztask) |->
                    IF ztask[t].zone = z
                    THEN [FutCancelled(ztask, tasks[z])[t] EXCEPT !.left = TRUE]
                    ELSE ztask[t]]
    /\ ready' = ready \o CancelEntries(tasks[z])

LeaveZone(z) ==
    /\ calls < MaxCalls
    /\ calls' = calls + 1
    /\ gated' = gated
    /\ flips' = flips
    /\ LeaveZoneMaps(z)
    /\ UNCHANGED <<batch, cur, stopping, loopAlive, cmd_queue, ack_queue,
                   ackGetters, warnings, zoneIters, mute, sched, gets, shutPc>>
    /\ UNCHANGED engineV
    /\ UNCHANGED <<sfx_events, sfxLog>>
    /\ UNCHANGED sideV
    /\ UNCHANGED dequeued
    /\ UNCHANGED dropped

\* the callback of run_coroutine_threadsafe(self._zone_block_loop(zone)):
\* the task is created and chained to the future; a future cancelled before
\* that has Task.cancel posted now, behind the task's first step
ZoneCallback ==
    /\ CanRun("cb", "zone")
    /\ batch' = BatchAfter
    /\ LET t == Head(ready).id IN
       /\ ztask' = [ztask EXCEPT ![t].pc = "created"]
       /\ ready' = Tail(ready) \o <<Entry("step", "zone", t, NoCmd)>>
                     \o (IF ztask[t].fut = "cancelled"
                         THEN <<Entry("cancel", "zone", t, NoCmd)>> ELSE <<>>)
    /\ UNCHANGED <<cur, stopping, loopAlive, cmd_queue, ack_queue, ackGetters,
                   zones, tasks, warnings, zoneIters>>
    /\ UNCHANGED <<engineV, clientV>>
    /\ UNCHANGED <<sfx_events, sfxLog>>
    /\ UNCHANGED sideV
    /\ UNCHANGED dequeued
    /\ UNCHANGED dropped

\* Task.cancel() on the loop thread: a sleeping task has its sleep cancelled
\* and is woken; a task whose step is already in _ready is marked
\* (_must_cancel); a finished task is left alone
ZoneCancel ==
    /\ CanRun("cancel", "zone")
    /\ batch' = BatchAfter
    /\ LET t == Head(ready).id IN
       IF ztask[t].pc = "done"
       THEN /\ ready' = Tail(ready)
            /\ ztask' = ztask
       ELSE /\ ztask' = [ztask EXCEPT ![t].mustCancel = TRUE,
                            ![t].pc = IF @ = "sleeping" THEN "woken" ELSE @]
            /\ ready' = IF ztask[t].pc = "sleeping"
                        THEN Append(Tail(ready), Entry("wake", "zone", t, NoCmd))
                        ELSE Tail(ready)
    /\ UNCHANGED <<cur, stopping, loopAlive, cmd_queue, ack_queue, ackGetters,
                   zones, tasks, warnings, zoneIters>>
    /\ UNCHANGED <<engineV, clientV>>
    /\ UNCHANGED <<sfx_events, sfxLog>>
    /\ UNCHANGED sideV
    /\ UNCHANGED dequeued
    /\ UNCHANGED dropped

\* first step of _zone_block_loop.  A task cancelled before it started ends
\* at once.  With mute set it pops and cancels the zone's future, calls
\* stop_all() and returns.  Otherwise it enters the while loop.
ZoneStep ==
    /\ CanRun("step", "zone")
    /\ batch' = BatchAfter
    /\ LET t == Head(ready).id
           z == ztask[t].zone
       IN IF ztask[t].mustCancel
          THEN /\ ztask' = [ztask EXCEPT ![t].pc = "done"]
               /\ ready' = Append(Tail(ready), Entry("done", "zone", t, NoCmd))
               /\ UNCHANGED <<cur, tasks, sched>>
          ELSE IF mute
          THEN /\ tasks' = [tasks EXCEPT ![z] = 0]
               /\ ztask' = [FutCancelled(ztask, tasks[z]) EXCEPT ![t].pc = "done"]
               /\ ready' = Tail(ready) \o CancelEntries(tasks[z]) \o StopAllEntries
                             \o <<Entry("done", "zone", t, NoCmd)>>
               /\ sched' = <<>>
               /\ cur' = cur
          ELSE /\ ztask' = [ztask EXCEPT ![t].pc = "lfo"]
               /\ cur' = [co |-> "zone", id |-> t]
               /\ ready' = Tail(ready)
               /\ UNCHANGED <<tasks, sched>>
    /\ UNCHANGED <<stopping, loopAlive, cmd_queue, ack_queue, ackGetters,
                   zones, warnings, zoneIters, mute, gets, shutPc, calls, flips, gated>>
    /\ UNCHANGED engineV
    /\ UNCHANGED <<sfx_events, sfxLog>>
    /\ UNCHANGED sideV
    /\ UNCHANGED dequeued
    /\ UNCHANGED dropped

\* the block sleep is over (or was cancelled): CancelledError breaks the
\* loop, otherwise the next iteration starts
ZoneWake ==
    /\ CanRun("wake", "zone")
    /\ batch' = BatchAfter
    /\ LET t == Head(ready).id IN
       IF ztask[t].mustCancel
       THEN /\ ztask' = [ztask EXCEPT ![t].pc = "done"]
            /\ ready' = Append(Tail(ready), Entry("done", "zone", t, NoCmd))
            /\ cur' = cur
       ELSE /\ ztask' = [ztask EXCEPT ![t].pc = "lfo"]
            /\ ready' = Tail(ready)
            /\ cur' = [co |-> "zone", id |-> t]
    /\ UNCHANGED <<stopping, loopAlive, cmd_queue, ack_queue, ackGetters,
                   zones, tasks, warnings, zoneIters>>
    /\ UNCHANGED <<engineV, clientV>>
    /\ UNCHANGED <<sfx_events, sfxLog>>
    /\ UNCHANGED sideV
    /\ UNCHANGED dequeued
    /\ UNCHANGED dropped

\* self._update_tempo(); self._update_energy().  With mute set both refer to
\* the undefined name `zone`: the NameError leaves the try block.
ZoneLfo ==
    /\ cur.co = "zone"
    /\ ztask[cur.id].pc = "lfo"
    /\ ztask' = [ztask EXCEPT ![cur.id].pc = IF mute THEN "except" ELSE "compose"]
    /\ UNCHANGED <<ready, batch, cur, stopping, loopAlive, cmd_queue,
                   ack_queue, ackGetters, zones, tasks, warnings, zoneIters>>
    /\ UNCHANGED <<engineV, clientV>>
    /\ UNCHANGED <<sfx_events, sfxLog>>
    /\ UNCHANGED sideV
    /\ UNCHANGED dequeued
    /\ UNCHANGED dropped

\* next_block_events, prepare_block and the event list, up to
\* events.extend(self.sfx_events).  With mute set both return None and the
\* use of the result raises.
ZoneCompose ==
    /\ cur.co = "zone"
    /\ ztask[cur.id].pc = "compose"
    /\ ztask' = IF mute
                THEN [ztask EXCEPT ![cur.id].pc = "except"]
                ELSE [ztask EXCEPT ![cur.id].pc = "clear",
                                   ![cur.id].events = ZoneEvents \o sfx_events]
    /\ UNCHANGED <<ready, batch, cur, stopping, loopAlive, cmd_queue,
                   ack_queue, ackGetters, zones, tasks, warnings, zoneIters,
                   sfx_events, sfxLog>>
    /\ UNCHANGED <<engineV, clientV>>
    /\ UNCHANGED sideV
    /\ UNCHANGED dequeued
    /\ UNCHANGED dropped

\* self.sfx_events.clear()
ZoneClear ==
    /\ cur.co = "zone"
    /\ ztask[cur.id].pc = "clear"
    /\ sfx_events' = <<>>
    /\ ztask' = [ztask EXCEPT ![cur.id].pc = "submit"]
    /\ UNCHANGED <<ready, batch, cur, stopping, loopAlive, cmd_queue,
                   ack_queue, ackGetters, zones, tasks, warnings, zoneIters,
                   sfxLog>>
    /\ UNCHANGED <<engineV, clientV>>
    /\ UNCHANGED sideV
    /\ UNCHANGED dequeued
    /\ UNCHANGED dropped

\* "except Exception as e: self.logger.warning(...)": the while loop starts
\* over, without any await in between
ZoneExcept ==
    /\ cur.co = "zone"
    /\ ztask[cur.id].pc = "except"
    /\ warnings' = IF warnings < MaxWarnings THEN warnings + 1 ELSE warnings
    /\ ztask' = [ztask EXCEPT ![cur.id].pc = "lfo"]
    /\ UNCHANGED <<ready, batch, cur, stopping, loopAlive, cmd_queue,
                   ack_queue, ackGetters, zones, tasks, zoneIters>>
    /\ UNCHANGED <<engineV, clientV>>
    /\ UNCHANGED <<sfx_events, sfxLog>>
    /\ UNCHANGED sideV
    /\ UNCHANGED dequeued
    /\ UNCHANGED dropped

\* events.sort(key=...); self.client.play_block(events);
\* await asyncio.sleep(beats * 60 / tempo)
ZoneSubmit ==
    /\ cur.co = "zone"
    /\ ztask[cur.id].pc = "submit"
    /\ ready' = ready \o PlayBlockEntries(SortedEvents(ztask[cur.id].events))
    /\ sched' = IF mute THEN <<>> ELSE sched
    /\ ztask' = [ztask EXCEPT ![cur.id].pc = "sleeping",
                              ![cur.id].nblocks = IF mute THEN @ ELSE @ + 1]
    /\ sfxLog' = IF mute THEN sfxLog
                 ELSE [sfxLog EXCEPT !.delivered = @ \o SfxIds(ztask[cur.id].events)]
    /\ sfx_events' = sfx_events
    /\ cur' = Idle
    /\ gated' = IF mute THEN gated + 1 ELSE gated
    /\ flips' = flips
    /\ quietPasses' = 0
    /\ UNCHANGED <<batch, stopping, loopAlive, cmd_queue, ack_queue,
                   ackGetters, enginePc, shutdown_event, serverStopped,
                   reaper, active_presets, voices, finished, current_melody,
                   blocks, mute, gets, shutPc, calls, zones, tasks, warnings,
                   zoneIters>>
    /\ UNCHANGED sideV
    /\ UNCHANGED dequeued
    /\ UNCHANGED dropped

ZoneTimer ==
    /\ AtIteration
    /\ zoneIters < MaxZoneIters
    /\ \E t \in 1..Len(ztask) :
          /\ ztask[t].pc = "sleeping"
          /\ ztask' = [ztask EXCEPT ![t].pc = "woken"]
          /\ ready' = Append(ready, Entry("wake", "zone", t, NoCmd))
    /\ zoneIters' = zoneIters + 1
    /\ UNCHANGED <<batch, cur, stopping, loopAlive, cmd_queue, ack_queue,
                   ackGetters, zones, tasks, warnings>>
    /\ UNCHANGED <<engineV, clientV>>
    /\ UNCHANGED <<sfx_events, sfxLog>>
    /\ UNCHANGED sideV
    /\ UNCHANGED dequeued
    /\ UNCHANGED dropped

\* the done callback of a zone task sets its future, unless it was cancelled
ZoneDone ==
    /\ CanRun("done", "zone")
    /\ batch' = BatchAfter
    /\ ready' = Tail(ready)
    /\ ztask' = [ztask EXCEPT ![Head(ready).id].fut =
                    IF @ = "pending" THEN "finished" ELSE @]
    /\ UNCHANGED <<cur, stopping, loopAlive, cmd_queue, ack_queue, ackGetters,
                   zones, tasks, warnings, zoneIters>>
    /\ UNCHANGED <<engineV, clientV>>
    /\ UNCHANGED <<sfx_events, sfxLog>>
    /\ UNCHANGED sideV
    /\ UNCHANGED dequeued
    /\ UNCHANGED dropped

\* ------------------------------------------------------------ the system
Next ==
    \/ LoopHalt \/ LoopStop
    \/ PutCallback \/ PutStep \/ PutDone
    \/ EngineWake \/ EngineSuspend \/ EngineShutdown
    \/ HandlePlayPreset \/ HandlePlayBlock \/ HandleGet \/ HandleStop
    \/ ReaperStep \/ ReaperWake \/ ReaperTimer \/ VoiceFinish
    \/ BlockStep \/ BlockWake \/ BlockTimer
    \/ PlayPreset \/ PlayBlock \/ StopPreset \/ StopAll \/ SetMute
    \/ GetCall \/ GetCallback \/ GetStep \/ GetWake \/ GetDone \/ GetTimeout
    \/ ShutdownCall \/ ShutdownStopLoop \/ ShutdownReturn
    \/ \E z \in Zones : EnterZone(z)
    \/ \E z \in Zones : LeaveZone(z)
    \/ QueueSfx
    \/ ZoneCallback \/ ZoneCancel \/ ZoneStep \/ ZoneWake
    \/ ZoneLfo \/ ZoneCompose \/ ZoneClear \/ ZoneExcept \/ ZoneSubmit \/ ZoneTimer \/ ZoneDone

Spec == Init /\ [][Next]_vars

\* every step the loop thread takes; the other actions are taken by caller
\* threads and by the audio library
LoopThread ==
    \/ LoopHalt \/ LoopStop
    \/ PutCallback \/ PutStep \/ PutDone
    \/ EngineWake \/ EngineSuspend \/ EngineShutdown
    \/ HandlePlayPreset \/ HandlePlayBlock \/ HandleGet \/ HandleStop
    \/ ReaperStep \/ ReaperWake \/ ReaperTimer
    \/ BlockStep \/ BlockWake \/ BlockTimer
    \/ GetCallback \/ GetStep \/ GetWake \/ GetDone
    \/ ZoneCallback \/ ZoneCancel \/ ZoneStep \/ ZoneWake
    \/ ZoneLfo \/ ZoneCompose \/ ZoneClear \/ ZoneExcept \/ ZoneSubmit \/ ZoneTimer \/ ZoneDone

\* the loop thread is never starved: run_forever keeps running callbacks
\* while there are any
FairSpec == Spec /\ WF_vars(LoopThread)

\* ------------------------------------------------------- PresetRegistry
\* what pkgutil.iter_modules yields for the presets package, in its order
ModuleOrder == <<"_draft", "chorus", "piano", "snare">>

\* what importing a module of the package does
Outcomes == {"raises", "no_class", "class"}

\* reload(): _load_all_presets starts with empty new maps.  fate is not in
\* the program: what the import of each module will do, as the files on
\* disk are at this reload
Reload ==
    /\ loader.pc = "idle"
    /\ loader.n < MaxReloads
    /\ \E f \in [KnownPresets -> Outcomes] :
          loader' = [pc |-> "scan", todo |-> ModuleOrder, new_map |-> {},
                     old |-> preset_map, n |-> loader.n + 1, fate |-> f]
    /\ UNCHANGED <<preset_map, presets_sig, presets_meta, reader>>
    /\ UNCHANGED <<loopV, engineV, clientV, zoneV>>
    /\ UNCHANGED proc
    /\ UNCHANGED comp
    /\ UNCHANGED orch
    /\ UNCHANGED prog
    /\ UNCHANGED zlog
    /\ UNCHANGED arr
    /\ UNCHANGED reap
    /\ UNCHANGED clk
    /\ UNCHANGED zl
    /\ UNCHANGED nb
    /\ UNCHANGED lfo
    /\ UNCHANGED mk
    /\ UNCHANGED tm
    /\ UNCHANGED hm

\* one pass of the for loop: a name starting with "_" is skipped; an import
\* that raises is logged and skipped; a module without a class is skipped;
\* otherwise the class and its signature go to the new maps
\* the for loop without its try/except: the exception of an import ends the
\* load, the maps stay as they were
ScanModuleAbortOnError ==
    /\ loader.pc = "scan"
    /\ loader.todo # <<>>
    /\ LET m == Head(loader.todo) IN
       IF m # "_draft" /\ loader.fate[m] = "raises"
       THEN loader' = [loader EXCEPT !.todo = <<>>, !.pc = "idle"]
       ELSE loader' = [loader EXCEPT
                          !.todo = Tail(@),
                          !.new_map = IF m # "_draft" /\ loader.fate[m] = "class"
                                      THEN @ \cup {m} ELSE @]
    /\ UNCHANGED <<preset_map, presets_sig, presets_meta, reader>>
    /\ UNCHANGED <<loopV, engineV, clientV, zoneV>>
    /\ UNCHANGED proc
    /\ UNCHANGED comp
    /\ UNCHANGED orch
    /\ UNCHANGED prog
    /\ UNCHANGED zlog
    /\ UNCHANGED arr
    /\ UNCHANGED reap
    /\ UNCHANGED clk
    /\ UNCHANGED zl
    /\ UNCHANGED nb
    /\ UNCHANGED lfo
    /\ UNCHANGED mk
    /\ UNCHANGED tm
    /\ UNCHANGED hm

ScanModule ==
    /\ loader.pc = "scan"
    /\ loader.todo # <<>>
    /\ LET m == Head(loader.todo) IN
       loader' = [loader EXCEPT
                     !.todo = Tail(@),
                     !.new_map = IF m # "_draft" /\ loader.fate[m] = "class"
                                 THEN @ \cup {m} ELSE @]
    /\ UNCHANGED <<preset_map, presets_sig, presets_meta, reader>>
    /\ UNCHANGED <<loopV, engineV, clientV, zoneV>>
    /\ UNCHANGED proc
    /\ UNCHANGED comp
    /\ UNCHANGED orch
    /\ UNCHANGED prog
    /\ UNCHANGED zlog
    /\ UNCHANGED arr
    /\ UNCHANGED reap
    /\ UNCHANGED clk
    /\ UNCHANGED zl
    /\ UNCHANGED nb
    /\ UNCHANGED lfo
    /\ UNCHANGED mk
    /\ UNCHANGED tm
    /\ UNCHANGED hm

\* "with self._lock:" and its six statements, one at a time: each map is
\* cleared, then updated, in place
SwapStep ==
    /\ \/ loader.pc = "scan" /\ loader.todo = <<>>
       \/ loader.pc \in {"update_map", "clear_sig", "update_sig", "clear_meta",
                         "update_meta"}
    /\ CASE loader.pc = "scan" ->
               /\ preset_map' = {}
               /\ loader' = [loader EXCEPT !.pc = "update_map"]
               /\ UNCHANGED <<presets_sig, presets_meta>>
         [] loader.pc = "update_map" ->
               /\ preset_map' = preset_map \cup loader.new_map
               /\ loader' = [loader EXCEPT !.pc = "clear_sig"]
               /\ UNCHANGED <<presets_sig, presets_meta>>
         [] loader.pc = "clear_sig" ->
               /\ presets_sig' = {}
               /\ loader' = [loader EXCEPT !.pc = "update_sig"]
               /\ UNCHANGED <<preset_map, presets_meta>>
         [] loader.pc = "update_sig" ->
               /\ presets_sig' = presets_sig \cup loader.new_map
               /\ loader' = [loader EXCEPT !.pc = "clear_meta"]
               /\ UNCHANGED <<preset_map, presets_meta>>
         [] loader.pc = "clear_meta" ->
               /\ presets_meta' = {}
               /\ loader' = [loader EXCEPT !.pc = "update_meta"]
               /\ UNCHANGED <<preset_map, presets_sig>>
         [] OTHER ->
               /\ presets_meta' = presets_meta \cup loader.new_map
               /\ loader' = [loader EXCEPT !.pc = "idle"]
               /\ UNCHANGED <<preset_map, presets_sig>>
    /\ UNCHANGED reader
    /\ UNCHANGED <<loopV, engineV, clientV, zoneV>>
    /\ UNCHANGED proc
    /\ UNCHANGED comp
    /\ UNCHANGED orch
    /\ UNCHANGED prog
    /\ UNCHANGED zlog
    /\ UNCHANGED arr
    /\ UNCHANGED reap
    /\ UNCHANGED clk
    /\ UNCHANGED zl
    /\ UNCHANGED nb
    /\ UNCHANGED lfo
    /\ UNCHANGED mk
    /\ UNCHANGED tm
    /\ UNCHANGED hm

\* a reader, on another thread and without the lock: "cls =
\* self.preset_map.get(name)".  stable records that the name is in the maps
\* both before and after the reload in progress.
ReadMap ==
    /\ reader.pc = "idle"
    /\ \E name \in KnownPresets :
          reader' = [pc |-> IF name \in preset_map THEN "found" ELSE "idle",
                     name |-> name,
                     res |-> IF name \in preset_map THEN "" ELSE "unknown",
                     stable |-> IF loader.pc \in {"idle", "scan"}
                                THEN name \in preset_map
                                ELSE name \in loader.old \cap loader.new_map]
    /\ UNCHANGED <<preset_map, presets_sig, presets_meta, loader>>
    /\ UNCHANGED <<loopV, engineV, clientV, zoneV>>
    /\ UNCHANGED proc
    /\ UNCHANGED comp
    /\ UNCHANGED orch
    /\ UNCHANGED prog
    /\ UNCHANGED zlog
    /\ UNCHANGED arr
    /\ UNCHANGED reap
    /\ UNCHANGED clk
    /\ UNCHANGED zl
    /\ UNCHANGED nb
    /\ UNCHANGED lfo
    /\ UNCHANGED mk
    /\ UNCHANGED tm
    /\ UNCHANGED hm

\* "allowed = set(self.presets_sig[name].parameters) - {...}"
ReadSig ==
    /\ reader.pc = "found"
    /\ reader' = [reader EXCEPT !.pc = "idle",
                                !.res = IF reader.name \in presets_sig
                                        THEN "ok" ELSE "KeyError"]
    /\ UNCHANGED <<preset_map, presets_sig, presets_meta, loader>>
    /\ UNCHANGED <<loopV, engineV, clientV, zoneV>>
    /\ UNCHANGED proc
    /\ UNCHANGED comp
    /\ UNCHANGED orch
    /\ UNCHANGED prog
    /\ UNCHANGED zlog
    /\ UNCHANGED arr
    /\ UNCHANGED reap
    /\ UNCHANGED clk
    /\ UNCHANGED zl
    /\ UNCHANGED nb
    /\ UNCHANGED lfo
    /\ UNCHANGED mk
    /\ UNCHANGED tm
    /\ UNCHANGED hm

RegistryNext == Reload \/ ScanModule \/ SwapStep \/ ReadMap \/ ReadSig

SpecRegistry == Init /\ [][RegistryNext]_vars

\* ------------------------------ one _process_block_events run, event by event
BlockPresets == {"snare", "piano", "lead"}

\* the event lists of up to MaxBlockLen events; idx is the place of the event
\* in the list the caller passed (the identity of the dict)
BlockInputs ==
    UNION { { [i \in 1..n |-> [time_offset |-> f[i][1], preset |-> f[i][2],
                               params |-> {}, idx |-> i]] :
              f \in [1..n -> (0..MaxOffset) \X BlockPresets] } :
            n \in 1..MaxBlockLen }

\* "for ev in sorted(events, key=lambda e: e["time_offset"])"
ProcessBlockEvents ==
    /\ proc.pc = "idle"
    /\ \E evs \in BlockInputs :
          proc' = [pc |-> "run", events |-> evs, todo |-> SortedEvents(evs),
                   fired |-> <<>>]
    /\ UNCHANGED <<loopV, engineV, clientV, zoneV, registryV>>
    /\ UNCHANGED comp
    /\ UNCHANGED orch
    /\ UNCHANGED prog
    /\ UNCHANGED zlog
    /\ UNCHANGED arr
    /\ UNCHANGED reap
    /\ UNCHANGED clk
    /\ UNCHANGED zl
    /\ UNCHANGED nb
    /\ UNCHANGED lfo
    /\ UNCHANGED mk
    /\ UNCHANGED tm
    /\ UNCHANGED hm

\* one pass of the loop after its sleep: an unknown preset is skipped, a
\* constructor that raises ends the task, otherwise cls(**pr_args).play()
ProcessFire ==
    /\ proc.pc = "run"
    /\ LET ev == Head(proc.todo)
           rest == Tail(proc.todo)
           pcAfter == IF rest = <<>> THEN "done" ELSE "run"
       IN IF ev.preset \notin KnownPresets
          THEN proc' = [proc EXCEPT !.todo = rest, !.pc = pcAfter]
          ELSE IF CtorRaises(ev.preset, ev.params)
          THEN proc' = [proc EXCEPT !.pc = "crashed"]
          ELSE proc' = [proc EXCEPT !.todo = rest, !.pc = pcAfter,
                                    !.fired = Append(@, ev.idx)]
    /\ UNCHANGED <<loopV, engineV, clientV, zoneV, registryV>>
    /\ UNCHANGED comp
    /\ UNCHANGED orch
    /\ UNCHANGED prog
    /\ UNCHANGED zlog
    /\ UNCHANGED arr
    /\ UNCHANGED reap
    /\ UNCHANGED clk
    /\ UNCHANGED zl
    /\ UNCHANGED nb
    /\ UNCHANGED lfo
    /\ UNCHANGED mk
    /\ UNCHANGED tm
    /\ UNCHANGED hm

BlockNext == ProcessBlockEvents \/ ProcessFire

SpecBlock == Init /\ [][BlockNext]_vars

\* ------------------------------------------------------------ Compositor
\* a hand of n events, each named by its place in the hand, from 0
Hand(n) == [j \in 1..n |-> j - 1]

\* self.melodies.get(melody_name, []): the hands of the registered melodies
\* (a hand is never empty), and no hand for an unknown name
Melodies ==
    UNION { [1..h -> {Hand(n) : n \in 1..MaxHandLen}] : h \in 0..MaxHands }

\* a cursor that stops at the last event
AdvanceNoWrap(i, n) == IF i + 1 < n THEN i + 1 ELSE i

\* self.idxs[hi] = (self.idxs[hi] + 1) % len(hand)
Advance(i, n) == (i + 1) % n

\* start(melody_name).  k is not in the program: the next_event() calls
\* since this start
CompositorStart ==
    /\ \E hands \in Melodies :
          comp' = IF mute THEN comp
                  ELSE [current_hands |-> hands,
                        idxs |-> [hi \in 1..Len(hands) |-> 0],
                        k |-> 0, emitted |-> <<>>]
    /\ UNCHANGED <<loopV, engineV, clientV, zoneV, registryV, proc>>
    /\ UNCHANGED orch
    /\ UNCHANGED prog
    /\ UNCHANGED zlog
    /\ UNCHANGED arr
    /\ UNCHANGED reap
    /\ UNCHANGED clk
    /\ UNCHANGED zl
    /\ UNCHANGED nb
    /\ UNCHANGED lfo
    /\ UNCHANGED mk
    /\ UNCHANGED tm
    /\ UNCHANGED hm

\* next_event(): each hand gives the event under its cursor, and the cursor
\* moves on.  emitted is not in the program: the events of the last call
AfterNextEvent(c) ==
    [c EXCEPT
       !.emitted = [hi \in 1..Len(c.current_hands) |->
                       c.current_hands[hi][c.idxs[hi] + 1]],
       !.idxs = [hi \in 1..Len(c.current_hands) |->
                    Advance(c.idxs[hi], Len(c.current_hands[hi]))],
       !.k = @ + 1]

NextEvent ==
    /\ comp.k < MaxEvents
    /\ comp' = IF mute THEN comp ELSE AfterNextEvent(comp)
    /\ UNCHANGED <<loopV, engineV, clientV, zoneV, registryV, proc>>
    /\ UNCHANGED orch
    /\ UNCHANGED prog
    /\ UNCHANGED zlog
    /\ UNCHANGED arr
    /\ UNCHANGED reap
    /\ UNCHANGED clk
    /\ UNCHANGED zl
    /\ UNCHANGED nb
    /\ UNCHANGED lfo
    /\ UNCHANGED mk
    /\ UNCHANGED tm
    /\ UNCHANGED hm

CompositorNext == CompositorStart \/ NextEvent

SpecCompositor == Init /\ [][CompositorNext]_vars

\* ----------------------------------------------------------- Orchestrator
\* REGISTER[role] = (low, high)
Register(role) ==
    CASE role = "bass" -> <<28, 48>>
      [] role = "piano" -> <<50, 96>>
      [] role = "pad" -> <<40, 84>>
      [] OTHER -> <<60, 108>>

\* "while midi < low: midi += 12"
RECURSIVE RaiseTo(_, _)
RaiseTo(midi, low) == IF midi < low THEN RaiseTo(midi + 12, low) ELSE midi

\* "while midi > high: midi -= 12"
RECURSIVE LowerTo(_, _)
LowerTo(midi, high) == IF midi > high THEN LowerTo(midi - 12, high) ELSE midi

\* _fit without its second loop
FitNoLower(midi, role) == RaiseTo(midi, Register(role)[1])

\* _fit(midi, role)
Fit(midi, role) == LowerTo(RaiseTo(midi, Register(role)[1]), Register(role)[2])

\* a chord: the MIDI numbers of its notes, in the order of c.notes
Chords == UNION { [1..n -> 0..MaxMidi] : n \in 1..MaxChordNotes }

ChordLists == UNION { [1..n -> Chords] : n \in 1..MaxChords }

\* c.bass().midi: the lowest note of the chord
BassOf(c) == CHOOSE m \in {c[i] : i \in 1..Len(c)} : \A i \in 1..Len(c) : m <= c[i]

\* voice(chords, rhythm) starts with empty parts.  todo and fitted are not
\* in the program: the chords still to voice, and the chords voiced
VoiceBegin ==
    /\ orch.todo = <<>>
    /\ orch.fitted = <<>>
    /\ \E cs \in ChordLists :
          orch' = [todo |-> cs, fitted |-> <<>>, bass |-> <<>>, piano |-> <<>>]
    /\ UNCHANGED <<loopV, engineV, clientV, zoneV, registryV, proc, comp>>
    /\ UNCHANGED prog
    /\ UNCHANGED zlog
    /\ UNCHANGED arr
    /\ UNCHANGED reap
    /\ UNCHANGED clk
    /\ UNCHANGED zl
    /\ UNCHANGED nb
    /\ UNCHANGED lfo
    /\ UNCHANGED mk
    /\ UNCHANGED tm
    /\ UNCHANGED hm

\* one pass of the for loop: the bass note, then the chord tones
VoiceChord ==
    /\ orch.todo # <<>>
    /\ LET c == Head(orch.todo) IN
       orch' = [todo |-> Tail(orch.todo),
                fitted |-> Append(orch.fitted, c),
                bass |-> Append(orch.bass, Fit(BassOf(c), "bass")),
                piano |-> orch.piano \o [i \in 1..Len(c) |-> Fit(c[i], "piano")]]
    /\ UNCHANGED <<loopV, engineV, clientV, zoneV, registryV, proc, comp>>
    /\ UNCHANGED prog
    /\ UNCHANGED zlog
    /\ UNCHANGED arr
    /\ UNCHANGED reap
    /\ UNCHANGED clk
    /\ UNCHANGED zl
    /\ UNCHANGED nb
    /\ UNCHANGED lfo
    /\ UNCHANGED mk
    /\ UNCHANGED tm
    /\ UNCHANGED hm

\* "return parts": the parts are the caller's, the next call starts afresh
VoiceReturn ==
    /\ orch.todo = <<>>
    /\ orch.fitted # <<>>
    /\ orch' = [todo |-> <<>>, fitted |-> <<>>, bass |-> <<>>, piano |-> <<>>]
    /\ UNCHANGED <<loopV, engineV, clientV, zoneV, registryV, proc, comp>>
    /\ UNCHANGED prog
    /\ UNCHANGED zlog
    /\ UNCHANGED arr
    /\ UNCHANGED reap
    /\ UNCHANGED clk
    /\ UNCHANGED zl
    /\ UNCHANGED nb
    /\ UNCHANGED lfo
    /\ UNCHANGED mk
    /\ UNCHANGED tm
    /\ UNCHANGED hm

OrchestratorNext == VoiceBegin \/ VoiceChord \/ VoiceReturn

SpecOrchestrator == Init /\ [][OrchestratorNext]_vars

\* -------------------------------------------------------- ProgressionSynth
\* GENRE_TEMPLATES
GenreTemplates(g) ==
    CASE g = "pop" -> <<"I", "V", "vi", "IV">>
      [] g = "rock" -> <<"I", "IV", "V">>
      [] g = "blues" -> <<"I", "IV", "I", "V">>
      [] g = "jazz" -> <<"ii", "V", "I">>
      [] g = "classical" -> <<"I", "vi", "ii", "V">>
      [] g = "funk" -> <<"I", "bVII", "IV", "I">>
      [] OTHER -> <<>>

\* a table in which every function may follow every function
FunctionMarkovAny(fn) == {"S", "D", "T"}

\* FUNCTION_MARKOV[fn], as the set random.choice draws from
FunctionMarkov(fn) ==
    CASE fn = "T" -> {"S", "D", "T"}
      [] fn = "S" -> {"D", "T"}
      [] OTHER -> {"T", "S"}

\* [rn for rn, f in RN_TO_FUNCTION.items() if f == fn]
RnOfFunction(fn) ==
    CASE fn = "T" -> {"I", "i", "vi", "VI", "III", "iii"}
      [] fn = "S" -> {"ii", "II", "IV", "iv"}
      [] OTHER -> {"V", "v", "viio", "VII"}

\* the genres a synth is made with ("swing" is not in GENRE_TEMPLATES), the
\* normalised keys ("Q major" is no key: _make_key falls back to C major),
\* and the time signatures ("0/4" divides by zero)
GenreChoices == {"pop", "rock", "swing"}

KeyChoices == {"A minor", "Q major"}

TimeSignatures == {"none", "1/4", "2/4", "0/4"}

\* num, den = map(int, time_signature.split('/'))
ParseTs(ts) ==
    CASE ts = "1/4" -> <<1, 4>>
      [] ts = "2/4" -> <<2, 4>>
      [] ts = "0/4" -> <<0, 4>>
      [] OTHER -> <<>>

\* _next_uncached raises: ValueError of int(), ZeroDivisionError
GenRaises(beats, ts) ==
    /\ ts # "none"
    /\ \/ ParseTs(ts) = <<>>
       \/ ParseTs(ts)[1] = 0
       \/ ParseTs(ts)[2] = 0

\* round(a / b) of Python 3 for a >= 0, b > 0: to the nearest, ties to even
Round(a, b) ==
    LET q == a \div b
        r == a % b
    IN IF 2 * r < b THEN q
       ELSE IF 2 * r > b THEN q + 1
       ELSE IF q % 2 = 0 THEN q ELSE q + 1

\* n_bars = max(1, int(round(beats / bar_beats))), bar_beats = num * (4/den)
NBars(beats, ts) ==
    LET n == IF ts = "none" THEN Round(beats, 4)
             ELSE Round(beats * ParseTs(ts)[2], 4 * ParseTs(ts)[1])
    IN IF n < 1 THEN 1 ELSE n

RECURSIVE Repeat(_, _)
Repeat(tpl, times) == IF times = 0 THEN <<>> ELSE tpl \o Repeat(tpl, times - 1)

\* the template once, its last numeral held for the bars that remain
CycledOnce(tpl, n) == [i \in 1..n |-> tpl[IF i < Len(tpl) THEN i ELSE Len(tpl)]]

\* rns = (tpl * ((n_bars // len(tpl)) + 1))[:n_bars]
Cycled(tpl, n) == SubSeq(Repeat(tpl, (n \div Len(tpl)) + 1), 1, n)

\* the Markov walk from prev_fn: the lists rns can be after n bars
RECURSIVE MarkovRuns(_, _)
MarkovRuns(prev_fn, n) ==
    IF n = 0 THEN {<<>>}
    ELSE UNION { UNION { { <<rn>> \o rest : rest \in MarkovRuns(fn, n - 1) } :
                         rn \in RnOfFunction(fn) } :
                 fn \in FunctionMarkov(prev_fn) }

\* the chord of a Roman numeral in a key, as music21 resolves it; a key that
\* is no key is C major (_make_key)
Resolve(rn, key) ==
    [rn |-> rn, key |-> IF key \in {"C major", "A minor"} THEN key ELSE "C major"]

\* the value of "return ['C']"
FallbackChord == [rn |-> "", key |-> "C"]

\* the tuples _next_uncached can return
Generated(genre, key, beats, ts) ==
    LET n == NBars(beats, ts)
        runs == IF genre # "none" THEN {Cycled(GenreTemplates(genre), n)}
                ELSE MarkovRuns("T", n)
    IN { [i \in 1..n |-> Resolve(rns[i], key)] : rns \in runs }

\* lru_cache: a hit moves the entry to the newest place, a miss stores the
\* value and drops the oldest entry over maxsize
CacheHit(cache, k) == \E i \in 1..Len(cache) : cache[i].k = k

CacheValue(cache, k) ==
    cache[CHOOSE i \in 1..Len(cache) : cache[i].k = k].v

CacheAfter(cache, k, v) ==
    LET kept == SelectSeq(cache, LAMBDA e : e.k # k)
        all == Append(kept, [k |-> k, v |-> v])
    IN IF Len(all) > MaxCached THEN Tail(all) ELSE all

\* next() with its except clauses taken out: the failure goes to the caller
OnFailureRaise(call) == [call EXCEPT !.raised = TRUE]

\* "except Exception as e2: ... return ['C']"
OnFailure(call) == [call EXCEPT !.out = <<FallbackChord>>, !.tries = 3]

\* ProgressionSynth(genre): empty caches
SynthInit ==
    /\ \E g \in GenreChoices :
          prog' = [genre |-> IF GenreTemplates(g) # <<>> THEN g ELSE "none",
                   cache |-> <<>>, n |-> 0,
                   first |-> [key |-> "", beats |-> 0, ts |-> "", out |-> <<>>,
                              tries |-> 0, raised |-> FALSE],
                   last |-> [key |-> "", beats |-> 0, ts |-> "", out |-> <<>>,
                             tries |-> 0, raised |-> FALSE]]
    /\ UNCHANGED <<loopV, engineV, clientV, zoneV, registryV, proc, comp, orch>>
    /\ UNCHANGED zlog
    /\ UNCHANGED arr
    /\ UNCHANGED reap
    /\ UNCHANGED clk
    /\ UNCHANGED zl
    /\ UNCHANGED nb
    /\ UNCHANGED lfo
    /\ UNCHANGED mk
    /\ UNCHANGED tm
    /\ UNCHANGED hm

\* "return list(self._next_cached(key, beats, time_signature))" for the call
\* call, at its tries-th try.  first and last are not in the program: the
\* first call of this synth and the latest, with what they returned, and n
\* the calls made
Served(call, key, tries) ==
    LET k == <<key, call.beats, call.ts>> IN
    \E v \in IF CacheHit(prog.cache, k) THEN {CacheValue(prog.cache, k)}
             ELSE Generated(prog.genre, key, call.beats, call.ts) :
       LET done == [call EXCEPT !.out = v, !.tries = tries] IN
       prog' = [prog EXCEPT !.cache = CacheAfter(@, k, v),
                            !.n = @ + 1,
                            !.last = done,
                            !.first = IF @.tries = 0 THEN done ELSE @]

\* next(analysis, beats) for a normalised key: the try, the retry with
\* "C major", and the last resort
ProgressionNext ==
    /\ prog.n < MaxNextCalls
    /\ \E key \in KeyChoices, beats \in 1..MaxBeats, ts \in TimeSignatures :
          LET call == [key |-> key, beats |-> beats, ts |-> ts, out |-> <<>>,
                       tries |-> 0, raised |-> FALSE]
          IN /\ (prog.genre = "none" /\ ~GenRaises(beats, ts))
                    => NBars(beats, ts) <= MaxMarkovBars
             /\ IF ~GenRaises(beats, ts) THEN Served(call, key, 1)
                ELSE IF ~GenRaises(beats, ts) THEN Served(call, "C major", 2)
                ELSE prog' = [prog EXCEPT
                                !.n = @ + 1,
                                !.last = OnFailure(call),
                                !.first = IF @.tries = 0 THEN OnFailure(call)
                                          ELSE @]
    /\ UNCHANGED <<loopV, engineV, clientV, zoneV, registryV, proc, comp, orch>>
    /\ UNCHANGED zlog
    /\ UNCHANGED arr
    /\ UNCHANGED reap
    /\ UNCHANGED clk
    /\ UNCHANGED zl
    /\ UNCHANGED nb
    /\ UNCHANGED lfo
    /\ UNCHANGED mk
    /\ UNCHANGED tm
    /\ UNCHANGED hm

ProgressionSpecNext == SynthInit \/ ProgressionNext

SpecProgression == Init /\ [][ProgressionSpecNext]_vars

\* ------------------------------------------ Maestro.zones and Maestro.tasks
\* leave_zone(zone) by a caller whose calls are counted in zlog, which is not
\* in the program: n the calls, never that one found a zone never entered,
\* twice that one found the zone already left
LeaveZoneLogged(z) ==
    /\ zlog.n < MaxLeaves
    /\ zlog' = [n |-> zlog.n + 1,
                never |-> zlog.never \/ (tasks[z] = 0 /\ zoneIters = 0),
                twice |-> zlog.twice \/ (tasks[z] = 0 /\ zoneIters > 0)]
    /\ LeaveZoneMaps(z)
    /\ UNCHANGED <<batch, cur, stopping, loopAlive, cmd_queue, ack_queue,
                   ackGetters, dequeued, dropped, warnings, zoneIters,
                   sfx_events, sfxLog>>
    /\ UNCHANGED <<engineV, clientV, registryV, proc, comp, orch, prog>>
    /\ UNCHANGED arr
    /\ UNCHANGED reap
    /\ UNCHANGED clk
    /\ UNCHANGED zl
    /\ UNCHANGED nb
    /\ UNCHANGED lfo
    /\ UNCHANGED mk
    /\ UNCHANGED tm
    /\ UNCHANGED hm

ZoneMapsNext ==
    \/ \E z \in Zones : EnterZone(z)
    \/ \E z \in Zones : LeaveZoneLogged(z)
    \/ ReaperStep \/ ZoneCallback \/ ZoneStep

SpecZoneMaps == Init /\ [][ZoneMapsNext]_vars

\* ------------------------------------------------------------ properties
\* every command on its way to the engine: carried by a callback of the put
\* coroutine, or waiting in cmd_queue
InFlight ==
    {ready[i].cmd : i \in {j \in 1..Len(ready) : ready[j].co = "put"}}
        \cup {cmd_queue[i] : i \in 1..Len(cmd_queue)}

\* C1: a handler that raises does not end the run loop: the run task leaves
\* its while loop only after a stop command has been handled (the shutdown
\* flag is set), so commands enqueued after the failing one are still handled.
C1_RunLoopEndsOnlyOnStop ==
    enginePc \in {"crashed", "await_cleanup", "finished"} => shutdown_event

\* C2: a get_active_presets / get_current_melody call that returns within
\* its timeout has consumed the ack produced for its own request, never the
\* ack of another command.
C2_GetConsumesOwnAck ==
    \A id \in 1..Len(gets) :
        (gets[id].pc = "done" /\ gets[id].caller = "returned") => gets[id].got = id

\* C3: with mute set, a zone task whose block sleep ends terminates: it does
\* not start another iteration of its loop.
C3_MutedZoneExitsAfterSleep ==
    [][\A t \in 1..Len(ztask) :
          (mute /\ ztask[t].pc = "woken" /\ ztask'[t].pc # "woken")
              => ztask'[t].pc = "done"]_vars

\* C4: no play_preset or play_block command made by AudioEngineClient.play_preset
\* or play_block while mute was set is ever on its way to the command queue or
\* in it.
C4_MuteGate ==
    \A c \in InFlight : c.api \in {"play_preset", "play_block"} => ~c.muted

\* a play_preset or play_block call was made with mute set and returned, and a
\* command is on its way to the engine
C4_GatedCall == gated > 0 /\ mute /\ InFlight # {}

\* C5: no voice the engine instantiates comes from a client call (play_preset,
\* play_block, stop_preset, stop_all) made while mute was set.
C5_NoVoiceFromMutedCall == \A i \in 1..Len(voices) : ~voices[i].muted

\* C6: when shutdown() has returned, the stop command was handled, the reaper
\* task has ended and the audio server was stopped and shut down.
C6_ShutdownCompletesStop ==
    shutPc = "returned" =>
        /\ shutdown_event
        /\ reaper.pc \in {"cancelled", "done"}
        /\ serverStopped

\* C7: after two reaper passes during which no command arrived and every
\* active voice's lifetime had elapsed, active_presets is empty.
C7_ReaperConverges == quietPasses >= 2 => active_presets = <<>>

\* C8: a get_active_presets reply reports every voice that block events have
\* instantiated so far (the reaper removed none of them).
C8_BlockVoicesReported ==
    \A i \in 1..Len(ack_queue) :
        ack_queue[i].ack = "get_active_presets" =>
            ack_queue[i].expect \subseteq
                {ack_queue[i].data[j].id : j \in 1..Len(ack_queue[i].data)}

\* C9: at most one block-loop task per zone name has been started and has not
\* yet terminated.
C9_OneTaskPerZone ==
    \A z \in Zones :
        Cardinality({t \in 1..Len(ztask) :
                        ztask[t].zone = z /\ ztask[t].pc \notin {"new", "done"}}) <= 1

\* C10: once leave_zone(Z) has returned, the block-loop tasks of Z submit no
\* further play_block.
C10_NoBlockAfterLeave ==
    [][\A t \in 1..Len(ztask) :
          ztask[t].left => ztask'[t].nblocks = ztask[t].nblocks]_vars

\* C11: a zone task whose future was cancelled (by leave_zone or by
\* re-entering the zone) eventually terminates while the loop runs, whether
\* the block-generation steps of its iterations succeed or raise.
C11_CancelledZoneTerminates ==
    \A t \in 1..MaxZoneIters :
        (t \in DOMAIN ztask /\ ztask[t].fut = "cancelled" /\ loopAlive)
            ~> (~loopAlive \/ (t \in DOMAIN ztask /\ ztask[t].pc = "done"))

\* C12: every SFX event accepted by queue_sfx is still queued, or is in the
\* block a zone loop is building, or was delivered in a submitted block: none
\* is lost; and none is delivered twice.
C12_SfxDeliveredOnce ==
    LET queued == {sfx_events[i].sfx : i \in 1..Len(sfx_events)}
        building == UNION {{ztask[t].events[i].sfx :
                               i \in {j \in 1..Len(ztask[t].events) :
                                         "sfx" \in DOMAIN ztask[t].events[j]}} :
                           t \in {u \in 1..Len(ztask) : ztask[u].pc \in {"clear", "submit"}}}
        sent == {sfxLog.delivered[i] : i \in 1..Len(sfxLog.delivered)}
    IN /\ sfxLog.accepted \subseteq queued \cup building \cup sent
       /\ Cardinality(sent) = Len(sfxLog.delivered)

\* C13: a reader of the registry during a reload finds the signature of every
\* name it found in preset_map, and never finds missing a preset that is in
\* the maps both before and after the reload.
C13_ReadersSeeSnapshot ==
    /\ reader.res # "KeyError"
    /\ reader.res = "unknown" => ~reader.stable

\* C14: commands are dequeued in the order they were put: cmd_queue always
\* holds, in put order, exactly the commands put after the last one the run
\* loop took, so the next command taken is the oldest one waiting.
C14_CommandsFifo ==
    \A i \in 1..Len(cmd_queue) : cmd_queue[i].seq = dequeued + i

\* a command was taken and handled while two later ones wait in put order
C14_HandledWithBacklog == dequeued >= 1 /\ Len(cmd_queue) >= 2

\* C15: within one play_block the presets are instantiated in order of
\* non-decreasing time_offset, and events of equal time_offset in the order
\* they have in the list the caller passed.
C15_BlockFiresInOrder ==
    \A i, j \in 1..Len(proc.fired) :
        i < j =>
            LET a == proc.events[proc.fired[i]]
                b == proc.events[proc.fired[j]]
            IN \/ a.time_offset < b.time_offset
               \/ a.time_offset = b.time_offset /\ proc.fired[i] < proc.fired[j]

\* an unsorted list with a tie was processed to its end: the second event
\* fired first, then the first and third, which have the same offset
C15_UnsortedTieFired ==
    /\ proc.pc = "done"
    /\ Len(proc.events) = 3
    /\ proc.events[1].time_offset > proc.events[2].time_offset
    /\ proc.events[1].time_offset = proc.events[3].time_offset
    /\ proc.fired = <<2, 1, 3>>

\* C16: every constructor call of a play_preset command or a play_block
\* event gets exactly the caller's params whose keys are in the preset's
\* signature, and a constructor raises only for a missing required
\* argument, never because of a key outside the signature.
C16_CtorGetsSchemaKeys ==
    [][/\ \A i \in 1..Len(voices') :
             voices'[i].params = voices'[i].given \cap Allowed(voices'[i].name)
       /\ (enginePc' = "crashed" /\ enginePc # "crashed") =>
             ~(Required(Head(cmd_queue).preset) \subseteq Head(cmd_queue).params)
       /\ \A b \in 1..Len(blocks) :
             (blocks'[b].pc = "crashed" /\ blocks[b].pc # "crashed") =>
                ~(Required(Head(blocks[b].evs).preset)
                      \subseteq Head(blocks[b].evs).params)]_vars

\* a voice was built from params holding a key outside the signature
C16_ExtraKeyFiltered ==
    \E i \in 1..Len(voices) :
        /\ voices[i].given \ Allowed(voices[i].name) # {}
        /\ voices[i].params = voices[i].given \cap Allowed(voices[i].name)

\* C17: a play_preset command naming a preset that is not in the registry
\* is dropped: no voice is built, the active-voice list and ack_queue are
\* unchanged, and the run loop goes on to the next command.
C17_UnknownPresetDropped ==
    [][(/\ dequeued' = dequeued + 1
        /\ Head(cmd_queue).cmd = "play_preset"
        /\ Head(cmd_queue).preset \notin KnownPresets)
       => /\ voices' = voices
          /\ active_presets' = active_presets
          /\ ack_queue' = ack_queue
          /\ enginePc' = "running"
          /\ cur'.co = "engine"
          /\ ~shutdown_event']_vars

\* an unknown preset was dropped and the run loop took a later command
C17_DroppedThenNext == dropped >= 1 /\ dequeued > dropped

\* C18: a stop_all() call issues the stop_preset fade command for every
\* preset that has an active voice on the engine at the call.
C18_StopAllStopsActive ==
    [][StopAll =>
          \A i \in 1..Len(voices) :
              voices[i].id \notin finished =>
                  \E k \in (Len(ready) + 1)..Len(ready') :
                      /\ ready'[k].cmd.api = "stop_preset"
                      /\ ready'[k].cmd.preset = voices[i].name]_vars

\* C19: after a reload the registry holds exactly the modules whose import
\* succeeded and gave a class, whichever other modules failed; the modules
\* that failed are left out.
C19_LoadSkipsFailures ==
    (loader.pc = "idle" /\ loader.n > 0) =>
        LET good == {m \in KnownPresets : loader.fate[m] = "class"} IN
        /\ preset_map = good
        /\ presets_sig = good
        /\ presets_meta = good

\* a reload is over in which the first module raised and a later one loaded
C19_FailedOmittedOthersKept ==
    /\ loader.pc = "idle"
    /\ loader.n > 0
    /\ loader.fate["chorus"] = "raises"
    /\ loader.fate["snare"] = "class"
    /\ "chorus" \notin preset_map
    /\ "snare" \in preset_map

\* C20: after start(name) and k calls of next_event(), the cursor of every
\* hand of length n is k mod n, and the k-th call emitted the hand's event
\* at index (k-1) mod n.
C20_CursorWraps ==
    \A hi \in 1..Len(comp.current_hands) :
        LET n == Len(comp.current_hands[hi]) IN
        /\ comp.idxs[hi] = comp.k % n
        /\ comp.k >= 1 => comp.emitted[hi] = (comp.k - 1) % n

\* two hands of different lengths, both gone round at least once
C20_BothHandsWrapped ==
    /\ Len(comp.current_hands) = 2
    /\ Len(comp.current_hands[1]) = 2
    /\ Len(comp.current_hands[2]) = 3
    /\ comp.k = 7
    /\ comp.idxs = <<1, 1>>
    /\ comp.emitted = <<0, 0>>

\* the notes of the chords voiced so far, in the order of the piano part
RECURSIVE Flat(_)
Flat(cs) == IF cs = <<>> THEN <<>> ELSE Head(cs) \o Flat(Tail(cs))

\* C21: every bass note voice() returns is in 28..48 and every piano note in
\* 50..96, and each is the chord's note moved by a multiple of 12.
C21_NotesInRegister ==
    /\ \A i \in 1..Len(orch.bass) :
          /\ orch.bass[i] \in 28..48
          /\ (orch.bass[i] - BassOf(orch.fitted[i])) % 12 = 0
    /\ Len(orch.piano) = Len(Flat(orch.fitted))
    /\ \A i \in 1..Len(orch.piano) :
          /\ orch.piano[i] \in 50..96
          /\ (orch.piano[i] - Flat(orch.fitted)[i]) % 12 = 0

\* a chord with a note under both registers and a note over both was voiced
C21_LowAndHighFitted ==
    /\ orch.fitted = << <<10, 120>> >>
    /\ orch.bass = <<34>>
    /\ orch.piano = <<58, 96>>

\* C22: with a genre, next() returns max(1, round(beats / bar_beats)) chords,
\* bar_beats being num * (4 / den) or 4, and the i-th chord is the template's
\* numeral i mod its length, resolved in the key.
C22_GenreBarsAndCycle ==
    (/\ prog.genre # "none"
     /\ prog.last.tries = 1
     /\ prog.last.key \in {"C major", "A minor"})
    => LET tpl == GenreTemplates(prog.genre)
           a == IF prog.last.ts = "none" THEN prog.last.beats
                ELSE prog.last.beats * ParseTs(prog.last.ts)[2]
           b == IF prog.last.ts = "none" THEN 4 ELSE 4 * ParseTs(prog.last.ts)[1]
           n == Len(prog.last.out)
           off == IF n * b >= a THEN n * b - a ELSE a - n * b
       IN /\ n >= 1
          /\ 2 * off <= b \/ (n = 1 /\ 2 * a <= b)
          /\ \A i \in 1..n :
                prog.last.out[i] =
                    [rn |-> tpl[((i - 1) % Len(tpl)) + 1], key |-> prog.last.key]

\* four bars of the three-numeral rock template: the fourth chord is I again
C22_TemplateWrapped ==
    /\ prog.genre = "rock"
    /\ prog.last.key = "A minor"
    /\ prog.last.beats = 4
    /\ prog.last.ts = "1/4"
    /\ Len(prog.last.out) = 4
    /\ prog.last.out[4] = [rn |-> "I", key |-> "A minor"]

\* C23: next() never lets a failure of the generation out: it answers with
\* the list for "C major" or with ["C"], and what it returns is never empty.
C23_NextNeverRaises ==
    /\ ~prog.last.raised
    /\ prog.last.tries > 0 => prog.last.out # <<>>
    /\ (prog.last.tries > 0 /\ GenRaises(prog.last.beats, prog.last.ts))
          => prog.last.out = <<FallbackChord>>

\* a call whose time signature divides by zero came back with ["C"]
C23_FallbackReturned ==
    /\ prog.last.ts = "0/4"
    /\ prog.last.tries = 3
    /\ prog.last.out = <<FallbackChord>>

\* C24: a call of next() with the key, beats and time signature of the first
\* call of the synth returns what the first call returned.
C24_RepeatedCallSameList ==
    (/\ prog.last.tries > 0
     /\ prog.last.key = prog.first.key
     /\ prog.last.beats = prog.first.beats
     /\ prog.last.ts = prog.first.ts)
    => prog.last.out = prog.first.out

\* C25: leave_zone(Z) takes Z out of zones and tasks and touches no other
\* zone; on a zone that is in neither map (never entered, or already left)
\* it changes nothing, so a second leave_zone gives what the first gave.
C25_LeaveZoneIdempotent ==
    [][zlog'.n = zlog.n + 1 =>
          \E z \in Zones :
              /\ zones' = zones \ {z}
              /\ tasks' = [tasks EXCEPT ![z] = 0]
              /\ (z \notin zones /\ tasks[z] = 0) =>
                    /\ zones' = zones
                    /\ tasks' = tasks
                    /\ ready' = ready]_vars

\* leave_zone was called on a zone never entered and, after an enter_zone
\* and a first leave_zone, a second time
C25_LeftTwiceAndNever ==
    /\ zlog.never
    /\ zlog.twice
    /\ zoneIters >= 1
    /\ zones = {}
    /\ tasks = [z \in Zones |-> 0]

(***************************************************************************)
(* ArrangementEngine.prepare_block (arrangement_engine.py 19-51).  The     *)
(* first statement returns None while the maestro is muted; otherwise the  *)
(* block pulls events from the compositor until the requested beats are    *)
(* covered (the number of pulls depends on the durations, which the model  *)
(* leaves open between 1 and MaxPulls), analyses the melody through the    *)
(* cached describe(), asks the progression synth for chords and voices     *)
(* and mixes them.  The voicing and the mixer keep no state the model      *)
(* follows; a failure inside them surfaces as the call raising after the   *)
(* cursors and the caches were already updated.                            *)
(***************************************************************************)
RECURSIVE Pulled(_, _)
Pulled(c, j) == IF j = 0 THEN c ELSE Pulled(AfterNextEvent(c), j - 1)

PrepareNeverSkips == FALSE

PrepareSkips == mute

PrepareBlock ==
    /\ arr.calls < MaxPrepares
    /\ IF PrepareSkips
       THEN /\ arr' = [arr EXCEPT !.calls = @ + 1, !.returned = "nothing"]
            /\ UNCHANGED <<comp, prog>>
       ELSE \E j \in 1..MaxPulls, key \in KeyChoices, beats \in {1, MaxBeats},
               ret \in {"parts", "raised"} :
               /\ comp.k + j <= MaxEvents
               /\ prog.n < MaxNextCalls
               /\ comp' = Pulled(comp, j)
               /\ Served([key |-> key, beats |-> beats, ts |-> "none",
                          out |-> <<>>, tries |-> 0, raised |-> FALSE], key, 1)
               /\ arr' = [ha |-> arr.ha \cup {[hands |-> comp.current_hands,
                                               idxs |-> comp.idxs,
                                               pulls |-> j]},
                          calls |-> arr.calls + 1,
                          returned |-> ret]
    /\ UNCHANGED <<loopV, engineV, clientV, zoneV, registryV, proc, orch, zlog>>
    /\ UNCHANGED reap
    /\ UNCHANGED clk
    /\ UNCHANGED zl
    /\ UNCHANGED nb
    /\ UNCHANGED lfo
    /\ UNCHANGED mk
    /\ UNCHANGED tm
    /\ UNCHANGED hm

ArrangementNext == SetMute \/ CompositorStart \/ PrepareBlock

SpecArrangement == Init /\ [][ArrangementNext]_vars

\* C26: a prepare_block call made while mute is active returns nothing and
\* leaves the compositor's hand cursors, the analyser cache and the
\* progression synth (its cache included) exactly as they were.
C26_MutedPrepareChangesNothing ==
    [][(arr'.calls = arr.calls + 1 /\ mute) =>
          /\ arr'.returned = "nothing"
          /\ comp' = comp
          /\ prog' = prog
          /\ arr'.ha = arr.ha]_vars

C26_MutedAfterPulling ==
    /\ mute
    /\ arr.returned = "nothing"
    /\ comp.k >= 1
    /\ arr.ha # {}
    /\ prog.n >= 1

\* C27: in a reaper pass a voice leaves the active-voice list exactly when its
\* handle reports completion: a sequence handle when all its envelopes are
\* done, a single node when it no longer plays; a handle that answers neither
\* query (the dict of a chain) stays.
C27_RemovedIffCompleted ==
    [][(reaper.pc = "woken" /\ reaper'.pc = "sleeping") =>
          \A i \in 1..Len(active_presets) :
             LET v == active_presets[i] IN
             (\A j \in 1..Len(active_presets') : active_presets'[j].id # v.id)
                <=> (v.kind \in {"seq", "node"} /\ v.id \in finished)]_vars

(***************************************************************************)
(* One pass of _cleanup_stopped_presets over handles whose liveness query  *)
(* may raise (audio_engine_server.py 85-158).  Each voice is examined      *)
(* inside its own try: a list of (Fader, Sine) tuples has no element with  *)
(* isDone and is kept, a dict has neither query and is kept, a node is     *)
(* asked isPlaying(); when the query raises the except branch removes the  *)
(* voice and the for loop goes on with the next one.  The pass itself does *)
(* not raise, so _periodic_cleanup_task stays in its while loop.           *)
(***************************************************************************)
Answers == {"playing", "stopped", "raises"}

Keeps(v, a) == v.kind # "node" \/ a = "playing"

\* a pass without the try around each voice: the first query that raises
\* ends the pass, and the exception leaves the periodic task
RECURSIVE CleanupAbortOnRaise(_, _)
CleanupAbortOnRaise(l, ans) ==
    IF l = <<>> THEN [kept |-> <<>>, examined |-> {}, raised |-> FALSE]
    ELSE IF Head(l).kind = "node" /\ Head(ans) = "raises"
         THEN [kept |-> l, examined |-> {Head(l).id}, raised |-> TRUE]
         ELSE LET rest == CleanupAbortOnRaise(Tail(l), Tail(ans)) IN
              [kept |-> (IF Keeps(Head(l), Head(ans)) THEN <<Head(l)>> ELSE <<>>)
                           \o rest.kept,
               examined |-> {Head(l).id} \cup rest.examined,
               raised |-> rest.raised]

RECURSIVE CleanupStoppedPresets(_, _)
CleanupStoppedPresets(l, ans) ==
    IF l = <<>> THEN [kept |-> <<>>, examined |-> {}, raised |-> FALSE]
    ELSE LET rest == CleanupStoppedPresets(Tail(l), Tail(ans)) IN
         [kept |-> (IF Keeps(Head(l), Head(ans)) THEN <<Head(l)>> ELSE <<>>)
                      \o rest.kept,
          examined |-> {Head(l).id} \cup rest.examined,
          raised |-> rest.raised]

\* _handle_play_preset appends the handle play() returned
ReapPlay ==
    /\ reap.made < MaxReapVoices
    /\ \E kind \in {"seq", "chain", "node"} :
          reap' = [reap EXCEPT !.made = @ + 1,
                               !.active = Append(@, [id |-> reap.made + 1,
                                                     kind |-> kind])]
    /\ UNCHANGED <<loopV, engineV, clientV, zoneV, registryV, proc, comp, orch,
                   prog, zlog, arr>>
    /\ UNCHANGED clk
    /\ UNCHANGED zl
    /\ UNCHANGED nb
    /\ UNCHANGED lfo
    /\ UNCHANGED mk
    /\ UNCHANGED tm
    /\ UNCHANGED hm

\* _periodic_cleanup_task wakes and awaits _cleanup_stopped_presets
ReapPass ==
    /\ reap.pc = "sleeping"
    /\ reap.passes < MaxPasses
    /\ \E ans \in [1..Len(reap.active) -> Answers] :
          LET r == CleanupStoppedPresets(reap.active, ans) IN
          reap' = [reap EXCEPT
                     !.active = r.kept,
                     !.before = reap.active,
                     !.ans = ans,
                     !.examined = r.examined,
                     !.passes = @ + 1,
                     !.raisedPasses = IF \E i \in 1..Len(ans) :
                                            /\ ans[i] = "raises"
                                            /\ reap.active[i].kind = "node"
                                         THEN @ + 1 ELSE @,
                     !.pc = IF r.raised THEN "crashed" ELSE "sleeping"]
    /\ UNCHANGED <<loopV, engineV, clientV, zoneV, registryV, proc, comp, orch,
                   prog, zlog, arr>>
    /\ UNCHANGED clk
    /\ UNCHANGED zl
    /\ UNCHANGED nb
    /\ UNCHANGED lfo
    /\ UNCHANGED mk
    /\ UNCHANGED tm
    /\ UNCHANGED hm

ReaperPassNext == ReapPlay \/ ReapPass

SpecReaperPass == Init /\ [][ReaperPassNext]_vars

\* C28: when a handle's liveness query raises in a reaper pass, that voice is
\* removed, every other voice of the list is still examined in the same pass
\* and removed or kept by its normal rule, and the periodic task goes on.
C28_RaisingVoiceRemoved ==
    [][reap'.passes = reap.passes + 1 =>
          /\ reap'.pc = "sleeping"
          /\ \A i \in 1..Len(reap.active) :
                LET v == reap.active[i]
                    a == reap'.ans[i]
                    gone == \A j \in 1..Len(reap'.active) :
                               reap'.active[j].id # v.id
                IN /\ v.id \in reap'.examined
                   /\ (v.kind = "node" /\ a = "raises") => gone
                   /\ ~(v.kind = "node" /\ a = "raises")
                         => (gone <=> (v.kind = "node" /\ a = "stopped"))]_vars

C28_RaisedThenOthersExamined ==
    /\ reap.passes = 2
    /\ reap.raisedPasses = 2
    /\ reap.pc = "sleeping"
    /\ Len(reap.before) = 2
    /\ reap.before[1].kind = "node" /\ reap.ans[1] = "raises"
    /\ reap.before[2].kind = "node" /\ reap.ans[2] = "stopped"
    /\ reap.active = <<>>
    /\ reap.examined = {reap.before[1].id, reap.before[2].id}

\* C29: an event of a block whose preset is unknown, or whose filtered
\* arguments the constructor rejects, is skipped: once the block's task has
\* ended, every event with a known preset and accepted arguments was fired.
C29_BadEventSkippedRestFired ==
    proc.pc \in {"done", "crashed"} =>
       \A i \in 1..Len(proc.events) :
          LET ev == proc.events[i] IN
          (ev.preset \in KnownPresets /\ ~CtorRaises(ev.preset, ev.params))
             => \E j \in 1..Len(proc.fired) : proc.fired[j] = ev.idx

(***************************************************************************)
(* The timing of _process_block_events (audio_engine_server.py 336-349).   *)
(* loop.time() is the integer clk.now, advanced by LoopTime at any moment: *)
(* between the steps of a task (the loop is busy with other callbacks, a   *)
(* play() takes long) and while tasks sleep.  A task reads start once,     *)
(* then for each event of the sorted list reads the time again, computes   *)
(* sleep_duration and sleeps; the loop resumes it no earlier than the end  *)
(* of the sleep.  The events here all fire; cur, at and due are not in the *)
(* program: the time at which sleep_duration was computed, the time of     *)
(* the firing and the end of the sleep.                                    *)
(***************************************************************************)
Larger(a, b) == IF a >= b THEN a ELSE b

\* a sleep of the offset itself, counted from the moment it is computed
SleepFromNow(start, off, current_loop_time) == off

\* sleep_duration = max(0, (start + ev["time_offset"]) - current_loop_time)
SleepDuration(start, off, current_loop_time) ==
    Larger(0, (start + off) - current_loop_time)

\* the sorted offset lists of 1..MaxTimedLen events
TimedInputs ==
    UNION { { f \in [1..n -> 0..MaxOffset] :
                \A i \in 1..(n - 1) : f[i] <= f[i + 1] } : n \in 1..MaxTimedLen }

LoopTime ==
    /\ clk.now < MaxTime
    /\ clk' = [clk EXCEPT !.now = @ + 1]
    /\ UNCHANGED <<loopV, engineV, clientV, zoneV, registryV, proc, comp, orch,
                   prog, zlog, arr, reap>>
    /\ UNCHANGED zl
    /\ UNCHANGED nb
    /\ UNCHANGED lfo
    /\ UNCHANGED mk
    /\ UNCHANGED tm
    /\ UNCHANGED hm

\* the task's first step: start = loop.time()
TimedBegin ==
    /\ Len(clk.tasks) < MaxTimedBlocks
    /\ \E offs \in TimedInputs :
          clk' = [clk EXCEPT !.tasks = Append(@, [start |-> clk.now,
                                                  todo |-> offs,
                                                  pc |-> "calc",
                                                  cur |-> 0, due |-> 0,
                                                  fired |-> <<>>])]
    /\ UNCHANGED <<loopV, engineV, clientV, zoneV, registryV, proc, comp, orch,
                   prog, zlog, arr, reap>>
    /\ UNCHANGED zl
    /\ UNCHANGED nb
    /\ UNCHANGED lfo
    /\ UNCHANGED mk
    /\ UNCHANGED tm
    /\ UNCHANGED hm

\* current_loop_time = loop.time(); sleep_duration = ...; await asyncio.sleep
TimedSleep ==
    /\ \E b \in 1..Len(clk.tasks) :
          /\ clk.tasks[b].pc = "calc"
          /\ clk' = [clk EXCEPT
                       !.tasks[b].pc = "sleeping",
                       !.tasks[b].cur = clk.now,
                       !.tasks[b].due =
                           clk.now + SleepDuration(clk.tasks[b].start,
                                                   Head(clk.tasks[b].todo),
                                                   clk.now)]
    /\ UNCHANGED <<loopV, engineV, clientV, zoneV, registryV, proc, comp, orch,
                   prog, zlog, arr, reap>>
    /\ UNCHANGED zl
    /\ UNCHANGED nb
    /\ UNCHANGED lfo
    /\ UNCHANGED mk
    /\ UNCHANGED tm
    /\ UNCHANGED hm

\* the sleep is over and the loop resumes the task: the event fires
TimedFire ==
    /\ \E b \in 1..Len(clk.tasks) :
          LET t == clk.tasks[b] IN
          /\ t.pc = "sleeping"
          /\ clk.now >= t.due
          /\ clk' = [clk EXCEPT
                       !.tasks[b].pc = IF Len(t.todo) = 1 THEN "done" ELSE "calc",
                       !.tasks[b].todo = Tail(@),
                       !.tasks[b].fired = Append(@, [off |-> Head(t.todo),
                                                     cur |-> t.cur,
                                                     due |-> t.due,
                                                     at |-> clk.now])]
    /\ UNCHANGED <<loopV, engineV, clientV, zoneV, registryV, proc, comp, orch,
                   prog, zlog, arr, reap>>
    /\ UNCHANGED zl
    /\ UNCHANGED nb
    /\ UNCHANGED lfo
    /\ UNCHANGED mk
    /\ UNCHANGED tm
    /\ UNCHANGED hm

DeadlineNext == LoopTime \/ TimedBegin \/ TimedSleep \/ TimedFire

SpecDeadline == Init /\ [][DeadlineNext]_vars

\* C30: every event of a block sleeps until start + time_offset, start being
\* the time read when its task began: when that deadline has passed the sleep
\* is empty, and otherwise the sleep ends exactly at the deadline, whatever
\* the earlier events of the block overran and whatever other blocks run.
C30_AbsoluteDeadline ==
    \A b \in 1..Len(clk.tasks) :
       \A i \in 1..Len(clk.tasks[b].fired) :
          LET t == clk.tasks[b]
              f == t.fired[i]
          IN /\ f.at >= f.due
             /\ IF t.start + f.off <= f.cur THEN f.due = f.cur
                ELSE f.due = t.start + f.off

C30_OverrunAndLateBlock ==
    /\ Len(clk.tasks) = 2
    /\ clk.tasks[2].start > clk.tasks[1].start
    /\ Len(clk.tasks[1].fired) = 2
    /\ clk.tasks[1].fired[1].at > clk.tasks[1].fired[1].due
    /\ clk.tasks[1].fired[2].cur < clk.tasks[1].fired[2].due
    /\ clk.tasks[1].fired[2].due = clk.tasks[1].start + clk.tasks[1].fired[2].off
    /\ clk.tasks[1].fired[2].at > clk.tasks[2].start
    /\ Len(clk.tasks[2].fired) = 2
    /\ clk.tasks[2].start + clk.tasks[2].fired[2].off < clk.tasks[2].fired[2].cur
    /\ clk.tasks[2].fired[2].due = clk.tasks[2].fired[2].cur

(***************************************************************************)
(* _zone_block_loop iteration by iteration (audio_maestro.py 66-117), for  *)
(* two zones of one Maestro with mute false.  Both loops run on the        *)
(* client's loop thread and an iteration has no await before its sleep,    *)
(* so an iteration is one step.  The Maestro owns one Compositor (line     *)
(* 37), here comp; repo is what _load_repo registered.  An iteration       *)
(* raises when random.choice finds no melody (line 75) or when             *)
(* prepare_block raises after its pull (the analysis of a melody with a    *)
(* frequency of 0 ends in math.log2(0), harmonic.py 57); `except           *)
(* Exception` then starts the loop over without a sleep.  ticks numbers    *)
(* the next_event calls of this Maestro; raw and arranged are the ticks    *)
(* of the two pulls of the last iteration, zero the orchestration events   *)
(* of the submitted block (all have time_offset 0).  The caches behind     *)
(* prepare_block are followed by PrepareBlock.                             *)
(***************************************************************************)
LoopZones == {"Y", "Z"}

Parts == {"bass", "piano", "melody"}

\* the presets random.choice(self.all_presets) draws here: two of the
\* registered presets are enough for two parts to draw the same one
DrawnPresets == {"piano", "snare"}

\* _load_repo registers a melody only when it has a hand with an event
Repos == {r \in SUBSET (Melodies \ {<<>>}) : Cardinality(r) <= 1}

\* {random.choice(self.all_presets): cfg for cfg in parts_fx.values()}
Remapped(picks) == {picks[p] : p \in Parts}

\* the ticks prepare_block analyses, were it handed the raw block
ArrangedFromRaw(t, j1, j2) == (t + 1)..(t + j1)

\* prepare_block pulls again: the ticks after those of raw
ArrangedTicks(t, j1, j2) == (t + j1 + 1)..(t + j1 + j2)

LoadRepo ==
    /\ ~zl.loaded
    /\ \E r \in Repos : zl' = [zl EXCEPT !.loaded = TRUE, !.repo = r]
    /\ UNCHANGED <<loopV, engineV, clientV, zoneV, registryV, proc, comp, orch,
                   prog, zlog, arr, reap, clk>>
    /\ UNCHANGED nb
    /\ UNCHANGED lfo
    /\ UNCHANGED mk
    /\ UNCHANGED tm
    /\ UNCHANGED hm

\* enter_zone with no task for the zone: the new task is at its first step
LoopEnter ==
    /\ zl.loaded /\ ~mute
    /\ \E z \in LoopZones :
          /\ zl.loops[z].pc = "off"
          /\ zl' = [zl EXCEPT !.loops[z].pc = "run"]
    /\ UNCHANGED <<loopV, engineV, clientV, zoneV, registryV, proc, comp, orch,
                   prog, zlog, arr, reap, clk>>
    /\ UNCHANGED nb
    /\ UNCHANGED lfo
    /\ UNCHANGED mk
    /\ UNCHANGED tm
    /\ UNCHANGED hm

\* one pass of the while loop, up to the sleep or to the except branch
LoopIterate ==
    /\ ~mute
    /\ zl.iters < MaxLoopIters
    /\ \E z \in LoopZones :
          /\ zl.loops[z].pc = "run"
          /\ IF zl.loops[z].first /\ zl.repo = {}
             THEN /\ zl' = [zl EXCEPT
                              !.iters = @ + 1,
                              !.last = [zone |-> z, raised |-> TRUE,
                                        started |-> FALSE, raw |-> {},
                                        arranged |-> {}, zero |-> 0]]
                  /\ comp' = comp
             ELSE \E mel \in IF zl.loops[z].first THEN zl.repo
                             ELSE {comp.current_hands},
                     j1 \in 1..MaxPulls, j2 \in 1..MaxPulls,
                     ret \in {"parts", "raised"},
                     picks \in [Parts -> DrawnPresets] :
                     LET c0 == IF zl.loops[z].first
                               THEN [current_hands |-> mel,
                                     idxs |-> [hi \in 1..Len(mel) |-> 0],
                                     k |-> 0, emitted |-> <<>>]
                               ELSE comp
                     IN /\ c0.k + j1 + j2 <= MaxEvents
                        /\ (ret = "raised") => picks = [p \in Parts |-> "piano"]
                        /\ comp' = Pulled(c0, j1 + j2)
                        /\ zl' = [zl EXCEPT
                                    !.iters = @ + 1,
                                    !.ticks = @ + j1 + j2,
                                    !.loops[z].first = FALSE,
                                    !.loops[z].pc =
                                        IF ret = "raised" THEN "run" ELSE "sleeping",
                                    !.loops[z].blocks =
                                        IF ret = "raised" THEN @ ELSE @ + 1,
                                    !.last =
                                        [zone |-> z, raised |-> ret = "raised",
                                         started |-> zl.loops[z].first,
                                         raw |-> (zl.ticks + 1)..(zl.ticks + j1),
                                         arranged |-> ArrangedTicks(zl.ticks, j1, j2),
                                         zero |-> IF ret = "raised" THEN 0
                                                  ELSE Cardinality(Remapped(picks))]]
    /\ UNCHANGED <<loopV, engineV, clientV, zoneV, registryV, proc, orch,
                   prog, zlog, arr, reap, clk>>
    /\ UNCHANGED nb
    /\ UNCHANGED lfo
    /\ UNCHANGED mk
    /\ UNCHANGED tm
    /\ UNCHANGED hm

\* the block sleep is over
LoopTimer ==
    /\ \E z \in LoopZones :
          /\ zl.loops[z].pc = "sleeping"
          /\ zl' = [zl EXCEPT !.loops[z].pc = "run"]
    /\ UNCHANGED <<loopV, engineV, clientV, zoneV, registryV, proc, comp, orch,
                   prog, zlog, arr, reap, clk>>
    /\ UNCHANGED nb
    /\ UNCHANGED lfo
    /\ UNCHANGED mk
    /\ UNCHANGED tm
    /\ UNCHANGED hm

ZoneLoopNext == LoadRepo \/ LoopEnter \/ LoopIterate \/ LoopTimer

SpecZoneLoop == Init /\ [][ZoneLoopNext]_vars

\* C31: with mute false, every iteration of an entered zone's loop submits
\* one play_block and then sleeps before the next iteration starts.
C31_IterationSubmitsAndSleeps ==
    [][(zl'.iters = zl.iters + 1 /\ ~mute) =>
          LET z == zl'.last.zone IN
          /\ zl'.loops[z].blocks = zl.loops[z].blocks + 1
          /\ zl'.loops[z].pc = "sleeping"]_vars

\* C32: every part prepare_block returned (bass, piano, melody) has exactly
\* one time_offset 0 event in the block submitted for the iteration,
\* whichever presets the remap drew, two parts drawing the same one included.
C32_OneEventPerPart ==
    (zl.iters > 0 /\ ~zl.last.raised) => zl.last.zero = Cardinality(Parts)

\* C36: an iteration pulls two consecutive blocks from the shared compositor:
\* the ticks scheduled as raw piano events, then the ticks prepare_block
\* analyses and injects as 'melody'.  Every tick belongs to exactly one of
\* the two pulls, so the arranged block is never the raw block.
C36_TwoConsecutivePulls ==
    (zl.iters > 0 /\ zl.last.raw # {}) =>
       /\ zl.last.arranged # {}
       /\ zl.last.raw \cap zl.last.arranged = {}
       /\ \A r \in zl.last.raw : \A a \in zl.last.arranged : r < a
       /\ zl.last.raw \cup zl.last.arranged =
             (zl.ticks - Cardinality(zl.last.raw)
                       - Cardinality(zl.last.arranged) + 1)..zl.ticks

C36_SecondIterationPulledTwice ==
    /\ zl.iters >= 2
    /\ ~zl.last.raised /\ ~zl.last.started
    /\ zl.last.raw = {4, 5}
    /\ zl.last.arranged = {6, 7}
    /\ comp.k = 7

\* C37: zone loops are isolated in their melody position: the first
\* iteration of a newly entered zone changes neither the current melody nor
\* the hand cursors from which an already running zone draws its next block.
C37_ZonesIsolated ==
    [][\A z \in LoopZones :
          (/\ zl'.iters = zl.iters + 1
           /\ zl'.last.zone = z
           /\ zl.loops[z].first
           /\ \E y \in LoopZones \ {z} :
                 zl.loops[y].pc # "off" /\ ~zl.loops[y].first)
          => /\ comp'.current_hands = comp.current_hands
             /\ comp'.idxs = comp.idxs]_vars

(***************************************************************************)
(* next_block_events over hands whose events carry a duration              *)
(* (maestro_compositor.py 144-168).  _load_repo takes every duration that  *)
(* float() accepts, 0 included (lines 84-91), and registers a melody with  *)
(* one event in one hand.  A hand is the list of its durations in whole    *)
(* beats.  The hands of a melody number one or two, so the accumulated     *)
(* mean is kept doubled in acc: time_acc = acc / 2.  n counts the ticks    *)
(* appended to the result and stops counting at MaxTicks; first, prev and  *)
(* last are the doubled `time` of the first tick and of the last two.      *)
(***************************************************************************)
DurHands ==
    UNION { [1..h -> UNION { [1..n -> 0..MaxDur] : n \in 1..2 }] : h \in 1..MaxHands }

\* 2 * sum(durs) / len(durs)
DoubledMean(hands, idxs) ==
    IF Len(hands) = 1 THEN 2 * hands[1][idxs[1] + 1]
    ELSE hands[1][idxs[1] + 1] + hands[2][idxs[2] + 1]

\* start(melody) and the call next_block_events(beats)
NextBlockEvents ==
    /\ nb.pc = "idle"
    /\ ~mute
    /\ \E hands \in DurHands, beats \in 1..MaxBeats :
          nb' = [pc |-> "loop", hands |-> hands,
                 idxs |-> [hi \in 1..Len(hands) |-> 0],
                 beats |-> beats, acc |-> 0, n |-> 0, first |-> 0,
                 prev |-> 0, last |-> 0]
    /\ UNCHANGED <<loopV, engineV, clientV, zoneV, registryV, proc, comp, orch,
                   prog, zlog, arr, reap, clk, zl>>
    /\ UNCHANGED lfo
    /\ UNCHANGED mk
    /\ UNCHANGED tm
    /\ UNCHANGED hm

\* "while time_acc < beats": one more tick, or the return
BlockLoop ==
    /\ nb.pc = "loop"
    /\ IF nb.acc < 2 * nb.beats
       THEN nb' = [nb EXCEPT
                     !.n = IF @ < MaxTicks THEN @ + 1 ELSE @,
                     !.first = IF nb.n = 0 THEN nb.acc ELSE @,
                     !.prev = nb.last,
                     !.last = nb.acc,
                     !.acc = @ + DoubledMean(nb.hands, nb.idxs),
                     !.idxs = [hi \in 1..Len(nb.hands) |->
                                  Advance(nb.idxs[hi], Len(nb.hands[hi]))]]
       ELSE nb' = [nb EXCEPT !.pc = "done"]
    /\ UNCHANGED <<loopV, engineV, clientV, zoneV, registryV, proc, comp, orch,
                   prog, zlog, arr, reap, clk, zl>>
    /\ UNCHANGED lfo
    /\ UNCHANGED mk
    /\ UNCHANGED tm
    /\ UNCHANGED hm

BlockEventsNext == NextBlockEvents \/ BlockLoop

SpecBlockEvents == Init /\ [][BlockEventsNext]_vars

\* the thread that called next_block_events keeps running
FairSpecBlockEvents == SpecBlockEvents /\ WF_vars(BlockLoop)

\* C33: for every melody the loader accepts and every beats > 0,
\* next_block_events terminates.
C33_BlockEventsTerminates == (nb.pc = "loop") ~> (nb.pc = "done")

(***************************************************************************)
(* _update_tempo and _update_energy (audio_maestro.py 119-136) with mute   *)
(* false.  The tempo is followed in whole BPM: a call moves it by at most  *)
(* 7 percent and clamps it.  dt is whatever time passed since the last     *)
(* call, so the phase after an update is any value of [0, 1); the model    *)
(* follows the quarter points, in hundredths (the first phase is 0.02).    *)
(* The energy is the binary64 value of 0.7 + 0.3 * sin(2 * pi * phase),    *)
(* an integer number of units of 2^-54 written as hi * 10^8 + lo.  At the  *)
(* quarter points math.sin returns 0.0, 1.0, 1.2e-16 and -1.0; the         *)
(* product with 0.3 is exact for the first, second and fourth, and for     *)
(* the third it is less than half an ulp of 0.7.                           *)
(***************************************************************************)
TempoMin == 60
TempoMax == 240

\* the doubles 0.7, 0.3, 0.4 and 1.0 in units of 2^-54
F07 == [hi |-> 126100789, lo |-> 56637388]
F03 == [hi |-> 54043195, lo |-> 52844595]
F04 == [hi |-> 72057594, lo |-> 3792794]
F10 == [hi |-> 180143985, lo |-> 9481984]

Plus(a, b) ==
    [hi |-> a.hi + b.hi + (a.lo + b.lo) \div 100000000, lo |-> (a.lo + b.lo) % 100000000]

Minus(a, b) ==
    IF a.lo >= b.lo THEN [hi |-> a.hi - b.hi, lo |-> a.lo - b.lo]
    ELSE [hi |-> a.hi - b.hi - 1, lo |-> a.lo + 100000000 - b.lo]

Leq(a, b) == a.hi < b.hi \/ (a.hi = b.hi /\ a.lo <= b.lo)

\* a sum in [0.5, 1] has an ulp of two units: round to nearest, ties to the
\* even mantissa
RoundToDouble(x) ==
    IF x.lo % 2 = 0 THEN x
    ELSE IF x.lo % 4 = 1 THEN Minus(x, [hi |-> 0, lo |-> 1])
    ELSE Plus(x, [hi |-> 0, lo |-> 1])

\* self.energy = 0.7 + 0.3 * math.sin(2 * math.pi * self._phase)
Energy(phase) ==
    CASE phase = 25 -> RoundToDouble(Plus(F07, F03))
      [] phase = 75 -> Minus(F07, F03)
      [] OTHER -> F07

\* step = tempo * uniform(-0.07, 0.07); tempo += uniform(-step, step), clamped
UpdateTempo ==
    /\ ~mute
    /\ \E d \in {0 - (lfo.tempo * 7) \div 100, 0 - 1, 0, 1, (lfo.tempo * 7) \div 100} :
          lfo' = [lfo EXCEPT !.tempo =
                     IF @ + d < TempoMin THEN TempoMin
                     ELSE IF @ + d > TempoMax THEN TempoMax ELSE @ + d]
    /\ UNCHANGED <<loopV, engineV, clientV, zoneV, registryV, proc, comp, orch,
                   prog, zlog, arr, reap, clk, zl, nb>>
    /\ UNCHANGED mk
    /\ UNCHANGED tm
    /\ UNCHANGED hm

UpdateEnergy ==
    /\ ~mute
    /\ \E p \in {0, 25, 50, 75} :
          lfo' = [lfo EXCEPT !.phase = p, !.energy = Energy(p)]
    /\ UNCHANGED <<loopV, engineV, clientV, zoneV, registryV, proc, comp, orch,
                   prog, zlog, arr, reap, clk, zl, nb>>
    /\ UNCHANGED mk
    /\ UNCHANGED tm
    /\ UNCHANGED hm

LfoNext == UpdateTempo \/ UpdateEnergy

SpecLfo == Init /\ [][LfoNext]_vars

\* C34: after any number of tempo and energy updates the tempo is within
\* [60, 240], the LFO phase within [0, 1) and the energy within [0.4, 1.0].
C34_LfoRanges ==
    /\ TempoMin <= lfo.tempo /\ lfo.tempo <= TempoMax
    /\ 0 <= lfo.phase /\ lfo.phase < 100
    /\ Leq(F04, lfo.energy) /\ Leq(lfo.energy, F10)

(***************************************************************************)
(* The Markov branch of _next_uncached (progression.py 99-105), one bar a  *)
(* step: prev_fn starts at 'T', each pass draws fn from                    *)
(* FUNCTION_MARKOV[prev_fn] and a numeral from the numerals of fn.         *)
(* mk.fns keeps the functions drawn, mk.rns is the list rns.               *)
(***************************************************************************)
MaxWalkBars == 3

\* rns, prev_fn = [], 'T'
MarkovBegin ==
    /\ mk.pc = "idle"
    /\ \E n \in 1..MaxWalkBars :
          mk' = [pc |-> "loop", n |-> n, fns |-> <<>>, rns |-> <<>>]
    /\ UNCHANGED <<loopV, engineV, clientV, zoneV, registryV, proc, comp, orch, prog, zlog, arr, reap, clk, zl, nb, lfo>>
    /\ UNCHANGED tm
    /\ UNCHANGED hm

\* the function the walk stands on before bar i
PrevFn(fns, i) == IF i = 1 THEN "T" ELSE fns[i - 1]

\* one pass of "for _ in range(n_bars)"
MarkovBar ==
    /\ mk.pc = "loop"
    /\ \E fn \in FunctionMarkov(PrevFn(mk.fns, Len(mk.fns) + 1)) :
          \E rn \in RnOfFunction(fn) :
             mk' = [mk EXCEPT !.fns = Append(@, fn),
                              !.rns = Append(@, rn),
                              !.pc = IF Len(mk.fns) + 1 = mk.n
                                     THEN "done" ELSE "loop"]
    /\ UNCHANGED <<loopV, engineV, clientV, zoneV, registryV, proc, comp, orch, prog, zlog, arr, reap, clk, zl, nb, lfo>>
    /\ UNCHANGED tm
    /\ UNCHANGED hm

MarkovWalkNext == MarkovBegin \/ MarkovBar

SpecMarkovWalk == Init /\ [][MarkovWalkNext]_vars

\* C35: in Markov mode the functions of consecutive bars follow the table
\* from Tonic: the first bar is drawn from the followers of T, every later
\* bar from the followers of the bar before it, so a Subdominant bar is never
\* followed by a Subdominant bar and a Dominant bar never by a Dominant bar,
\* and the numeral of each bar is one of the numerals of its function (and of
\* no other function).
C35_MarkovTransitions ==
    /\ Len(mk.rns) = Len(mk.fns)
    /\ \A i \in 1..Len(mk.fns) :
          /\ mk.fns[i] \in FunctionMarkov(PrevFn(mk.fns, i))
          /\ mk.rns[i] \in RnOfFunction(mk.fns[i])
          /\ \A f \in {"T", "S", "D"} :
                mk.rns[i] \in RnOfFunction(f) => f = mk.fns[i]
    /\ \A i \in 1..(Len(mk.fns) - 1) :
          /\ ~(mk.fns[i] = "S" /\ mk.fns[i + 1] = "S")
          /\ ~(mk.fns[i] = "D" /\ mk.fns[i + 1] = "D")
          /\ (mk.fns[i] = "S" => mk.fns[i + 1] \in {"D", "T"})
          /\ (mk.fns[i] = "D" => mk.fns[i + 1] \in {"T", "S"})

\* a finished walk of three bars that passed through S and then D
C35_WalkThroughSD ==
    /\ mk.pc = "done"
    /\ mk.n = MaxWalkBars
    /\ mk.fns = <<"S", "D", "T">>
    /\ mk.rns = <<"IV", "V", "I">>

(***************************************************************************)
(* ThreadManager (thread_manager.py).  tm.lock is self.thread_lock, with   *)
(* its owner and the number of times the owner holds it; tm.threads is the *)
(* key set of self.threads; tm.queue is self.thread_queue (names only).    *)
(* tm.pc[p] is the statement process p stands at:                          *)
(*   st_with      start_thread, "with self.thread_lock" of line 110        *)
(*   st_can       start_thread inside _can_start_thread, line 78           *)
(*   st_internal  start_thread inside _start_thread_internal, line 86      *)
(*   sp_with      stop_thread, line 129                                    *)
(*   pq_test      process_queue, the queue test of line 195                *)
(*   pq_can       process_queue inside _can_start_thread, line 78          *)
(*   pq_get       process_queue, line 196                                  *)
(*   pq_internal  process_queue inside _start_thread_internal, line 86     *)
(*   run          a started thread inside its target                       *)
(*   cl_with      _cleanup_thread, line 61                                 *)
(*   cl_internal  _cleanup_thread inside _start_thread_internal, line 86   *)
(* tm.arg[p] is the thread name p works on.  start_thread is called at     *)
(* most once with each name (tm.asked), so a name is one thread.           *)
(* tm.returned collects the public methods that have returned.             *)
(***************************************************************************)
MaxTmCalls == 4

\* a lock that its owner may take again (threading.RLock)
LockIsRLock == TRUE

\* self.thread_lock = threading.Lock(): the owner cannot take it again
LockReentrant == FALSE

\* ThreadManager(single_thread, max_threads)
TmCreate ==
    /\ tm.max = 0
    /\ \E single_thread \in BOOLEAN, max_threads \in 1..2 :
          tm' = [tm EXCEPT !.max = IF single_thread THEN 1 ELSE max_threads]
    /\ UNCHANGED <<loopV, engineV, clientV, zoneV, registryV, proc, comp, orch, prog, zlog, arr, reap, clk, zl, nb, lfo, mk>>
    /\ UNCHANGED hm

\* a caller enters start_thread(name), stop_thread(name) or process_queue()
TmCall(c) ==
    /\ tm.max > 0
    /\ tm.pc[c] = "idle"
    /\ tm.calls < MaxTmCalls
    /\ \/ \E n \in TmNames \ tm.asked :
             tm' = [tm EXCEPT !.pc[c] = "st_with", !.arg[c] = n,
                              !.asked = @ \cup {n}, !.calls = @ + 1]
       \/ \E n \in TmNames :
             tm' = [tm EXCEPT !.pc[c] = "sp_with", !.arg[c] = n,
                              !.calls = @ + 1]
       \/ tm' = [tm EXCEPT !.pc[c] = "pq_test", !.calls = @ + 1]
    /\ UNCHANGED <<loopV, engineV, clientV, zoneV, registryV, proc, comp, orch, prog, zlog, arr, reap, clk, zl, nb, lfo, mk>>
    /\ UNCHANGED hm

\* process p enters the "with self.thread_lock" it stands at and runs up to
\* the next one it meets, or to the end of its method
TmAcquire(p) ==
    LET n == tm.arg[p]
        taken == [owner |-> p, depth |-> tm.lock.depth + 1]
        released == IF tm.lock.depth = 1 THEN [owner |-> "none", depth |-> 0]
                    ELSE [owner |-> p, depth |-> tm.lock.depth - 1]
        room == Cardinality(tm.threads) < tm.max
        \* _start_thread_internal(n), the lock taken and given back
        started == IF n \in tm.threads THEN tm
                   ELSE [tm EXCEPT !.threads = @ \cup {n}, !.pc[n] = "run",
                                   !.arg[n] = n]
    IN
    /\ tm.pc[p] \in {"st_with", "st_can", "st_internal", "sp_with", "pq_can",
                     "pq_get", "pq_internal", "cl_with", "cl_internal"}
    /\ \/ tm.lock.owner = "none"
       \/ LockReentrant /\ tm.lock.owner = p
    /\ tm' =
         CASE tm.pc[p] = "st_with" ->
                IF n \in tm.threads
                THEN [tm EXCEPT !.pc[p] = "idle",
                                !.returned = @ \cup {"start_thread"}]
                ELSE [tm EXCEPT !.pc[p] = "st_can", !.lock = taken]
           [] tm.pc[p] = "st_can" ->
                IF room
                THEN [tm EXCEPT !.pc[p] = "st_internal"]
                ELSE [tm EXCEPT !.queue = Append(@, n), !.pc[p] = "idle",
                                !.lock = released,
                                !.returned = @ \cup {"start_thread"}]
           [] tm.pc[p] = "st_internal" ->
                [started EXCEPT !.pc[p] = "idle", !.lock = released,
                                !.returned = @ \cup {"start_thread"}]
           [] tm.pc[p] = "sp_with" ->
                [tm EXCEPT !.threads = @ \ {n}, !.pc[p] = "idle",
                           !.returned = @ \cup {"stop_thread"}]
           [] tm.pc[p] = "pq_can" ->
                IF room
                THEN [tm EXCEPT !.pc[p] = "pq_get"]
                ELSE [tm EXCEPT !.pc[p] = "idle",
                                !.returned = @ \cup {"process_queue"}]
           [] tm.pc[p] = "pq_get" ->
                IF tm.queue = <<>>
                THEN [tm EXCEPT !.pc[p] = "idle"]      \* queue.Empty
                ELSE [tm EXCEPT !.arg[p] = Head(tm.queue),
                                !.queue = Tail(@), !.pc[p] = "pq_internal"]
           [] tm.pc[p] = "pq_internal" ->
                [started EXCEPT !.pc[p] = "pq_test"]
           [] tm.pc[p] = "cl_with" ->
                IF tm.queue # <<>>
                THEN [tm EXCEPT !.threads = @ \ {p},
                                !.arg[p] = Head(tm.queue),
                                !.queue = Tail(@), !.pc[p] = "cl_internal",
                                !.lock = taken]
                ELSE [tm EXCEPT !.threads = @ \ {p}, !.pc[p] = "end"]
           [] OTHER ->
                [started EXCEPT !.pc[p] = "end", !.lock = released]
    /\ UNCHANGED <<loopV, engineV, clientV, zoneV, registryV, proc, comp, orch, prog, zlog, arr, reap, clk, zl, nb, lfo, mk>>
    /\ UNCHANGED hm

\* a step that takes no lock: the queue test of process_queue, and the
\* target of a started thread returning (or raising) into _cleanup_thread
TmRun(p) ==
    /\ tm.pc[p] \in {"pq_test", "run"}
    /\ tm' =
         IF tm.pc[p] = "run" THEN [tm EXCEPT !.pc[p] = "cl_with"]
         ELSE IF tm.queue = <<>>
              THEN [tm EXCEPT !.pc[p] = "idle",
                              !.returned = @ \cup {"process_queue"}]
              ELSE [tm EXCEPT !.pc[p] = "pq_can"]
    /\ UNCHANGED <<loopV, engineV, clientV, zoneV, registryV, proc, comp, orch, prog, zlog, arr, reap, clk, zl, nb, lfo, mk>>
    /\ UNCHANGED hm

ThreadsNext ==
    \/ TmCreate
    \/ \E c \in TmCallers : TmCall(c)
    \/ \E p \in TmCallers \cup TmNames : TmAcquire(p)
    \/ \E p \in TmCallers \cup TmNames : TmRun(p)

SpecThreads == Init /\ [][ThreadsNext]_vars

\* every process that can take a step takes it, and a process that can take
\* the lock again and again gets it
FairSpecThreads ==
    /\ SpecThreads
    /\ \A p \in TmCallers \cup TmNames :
          SF_vars(TmAcquire(p)) /\ WF_vars(TmRun(p))

\* C38: a call of start_thread returns.
C38_StartThreadReturns ==
    \A c \in TmCallers :
       (tm.pc[c] \in {"st_with", "st_can", "st_internal"}) ~> (tm.pc[c] = "idle")

MaxHmCalls == 4

\* a coroutine calls schedule(name, fn)
HmSchedule(c) ==
    /\ hm.pc[c] = "idle"
    /\ hm.calls < MaxHmCalls
    /\ \E n \in HmNames :
          hm' = [hm EXCEPT !.pc[c] = "sc_lock", !.arg[c] = n, !.calls = @ + 1]
    /\ UNCHANGED <<loopV, engineV, clientV, zoneV, registryV, proc, comp, orch, prog, zlog, arr, reap, clk, zl, nb, lfo, mk, tm>>

\* what "await x" waits for is there: coroutine p goes on to its next await
\* or to its end
HmResume(p) ==
    LET \* lines 45-54 and the end of the "async with": the task is made and
        \* registered, the lock given back
        created(n) == [hm EXCEPT !.sem = @ - 1, !.tasks = @ \cup {n},
                                 !.pc[n] = "run", !.pc[p] = "idle",
                                 !.lock = "none"]
    IN
    /\ \/ hm.pc[p] \in {"sc_lock", "fin_lock"} /\ hm.lock = "none"
       \/ hm.pc[p] = "sc_sem" /\ hm.sem > 0
    /\ hm' =
         CASE hm.pc[p] = "sc_lock" ->
                IF hm.arg[p] \in hm.tasks THEN [hm EXCEPT !.pc[p] = "idle"]
                ELSE IF hm.sem > 0 THEN created(hm.arg[p])
                ELSE [hm EXCEPT !.pc[p] = "sc_sem", !.lock = p]
           [] hm.pc[p] = "sc_sem" -> created(hm.arg[p])
           [] OTHER ->
                [hm EXCEPT !.tasks = @ \ {p}, !.sem = @ + 1, !.pc[p] = "off"]
    /\ UNCHANGED <<loopV, engineV, clientV, zoneV, registryV, proc, comp, orch, prog, zlog, arr, reap, clk, zl, nb, lfo, mk, tm>>

\* coro_fn returns or raises: _runner enters its finally
HmFinish(n) ==
    /\ hm.pc[n] = "run"
    /\ hm' = [hm EXCEPT !.pc[n] = "fin_lock"]
    /\ UNCHANGED <<loopV, engineV, clientV, zoneV, registryV, proc, comp, orch, prog, zlog, arr, reap, clk, zl, nb, lfo, mk, tm>>

HyperNext ==
    \/ \E c \in HmCallers : HmSchedule(c)
    \/ \E p \in HmCallers \cup HmNames : HmResume(p)
    \/ \E n \in HmNames : HmFinish(n)

SpecHyper == Init /\ [][HyperNext]_vars

\* every running task finishes, and a coroutine whose await can be served
\* again and again is resumed
FairSpecHyper ==
    /\ SpecHyper
    /\ \A p \in HmCallers \cup HmNames : SF_vars(HmResume(p))
    /\ \A n \in HmNames : WF_vars(HmFinish(n))

\* C40: a schedule call issued while the limit is reached completes: a
\* running task finishes, gives its slot back, and the waiting task is
\* started.
C40_WaitingScheduleCompletes ==
    \A c \in HmCallers :
       (hm.pc[c] = "sc_sem") ~> (hm.pc[c] = "idle" /\ hm.arg[c] \in hm.tasks)

====
